---- MODULE Spec2Model ----
(***************************************************************************)
(* Parts of the repository, each with its own specification:               *)
(*   Spec        the priority-tiered request worker of                     *)
(*               src/src/grpcworker/mod.rs: GrpcRequestWorker, its         *)
(*               scheduler mailbox, the Runner and the four priority       *)
(*               thread pools, with every task driven through its chain    *)
(*               of subtasks until its callback fires;                     *)
(*   SpecDag     DAGContext::handle_request of                             *)
(*               src/src/coprocessor/dag/dag.rs, shaping the rows of an    *)
(*               executor into chunks and response frames with their       *)
(*               scanned ranges (prefix_next of coprocessor/util.rs);      *)
(*   SpecDagAnyCalls  the same handler called again after any return,      *)
(*               in either mode;                                           *)
(*   SpecStorage the statistics, the scanner and the range scans of        *)
(*               TiKVStorage, src/src/coprocessor/dag/storage_impl.rs;     *)
(*   SpecKeys    an owned physical key of                                  *)
(*               src/components/keys/src/v2.rs: allocation from a user     *)
(*               key, the timestamp suffix and its guard;                  *)
(*   SpecKeyOps  the provided methods of trait PhysicalKey of the same     *)
(*               file, called in any order on a key with or without a      *)
(*               physical prefix;                                          *)
(*   SpecPrefix  prefix_next of src/src/coprocessor/util.rs, called on     *)
(*               each key of a bounded set;                                *)
(*   SpecReadPool ReadPool::future_execute of                              *)
(*               src/src/util/readpool/mod.rs over its three pools;        *)
(*   SpecInflate inflate_cols of src/src/coprocessor/dag/dag.rs on the     *)
(*               rows of a table;                                          *)
(*   SpecRpn     RpnFnLogicalAnd and RpnFnLogicalOr of                     *)
(*               src/src/coprocessor/dag/rpn_expr/impl_op.rs.              *)
(***************************************************************************)
EXTENDS Integers, Sequences, FiniteSets, TLC

\* ------------------------------------------------------------------ bounds
NumTasks == 2       \* tasks handed to async_execute
MaxContinues == 1   \* Continue reports in one run, over all tasks
MailboxCap == 1     \* capacity of the scheduler's bounded input queue
MaxReadTasks == 2   \* largest configured max_read_tasks
MaxThreads == 2     \* configured concurrency of each pool

Tasks == 1..NumTasks

\* ------------------------------------------------------------- data model
\* enum Priority (grpcworker/task), as matched in get_pool_by_priority.
Priorities == {"ReadCritical", "ReadHigh", "ReadNormal", "ReadLow"}
NoPriority == "none"

\* The priorities in the order of their declaration.
PriorityOrder == <<"ReadCritical", "ReadHigh", "ReadNormal", "ReadLow">>

\* The four ThreadPool fields of Runner.
Pools == {"pool_read_critical", "pool_read_high", "pool_read_normal", "pool_read_low"}

\* The order in which Runner::shutdown stops the pools.
ShutdownOrder == <<"pool_read_critical", "pool_read_high", "pool_read_normal", "pool_read_low">>

\* Thread count given to ThreadPoolBuilder::thread_count in start(); the four
\* pools are configured alike.
Concurrency(p) == MaxThreads

\* task::Result = Result<Value, Error>.
Ok(v) == [kind |-> "Ok", v |-> v]
Err(e) == [kind |-> "Err", v |-> <<e>>]
StorageNone == <<>>            \* Value::Storage(None)
StorageSome(v) == <<v>>        \* Value::Storage(Some(v))

\* The engine's contents: key "k" written with value "v" at ts = 50.
Store == {[key |-> "k", commit_ts |-> 50, value |-> "v"]}
Keys == {"x", "k"}
StartTs == {40, 100}

\* A snapshot read of `key` at `start_ts`: the newest version not after start_ts.
KvGet(key, start_ts) ==
    LET vs == {w \in Store : w.key = key /\ w.commit_ts <= start_ts}
    IN  IF vs = {}
        THEN Ok(StorageNone)
        ELSE LET w == CHOOSE w \in vs : \A u \in vs : u.commit_ts <= w.commit_ts
             IN  Ok(StorageSome(w.value))

\* What the last subtask of a chain may hand to its sink as Finish(r).
SubTaskResults ==
    {KvGet(k, ts) : k \in Keys, ts \in StartTs} \cup {Err("Storage")}

VARIABLES
    max_read_tasks,   \* Runner.max_read_tasks
    worker,           \* Worker<Task>: "created", "running", "stopping", "stopped"
    mailbox,          \* the scheduler's input queue of tasks
    priority,         \* task.priority of every task handed to async_execute
    poolq,            \* per pool: the closures accepted and not yet taken by a thread
    task_count,       \* per pool: ThreadPool::get_task_count()
    occupied,         \* per pool: threads inside a closure
    pool_stopped,     \* per pool: the shutdown flag
    stop_calls,       \* per pool: calls of ThreadPool::stop made by Runner::shutdown
    stop_failed,      \* the pools whose stop() returned Err
    worker_lock,      \* the mutex around `worker`: "free", or the method holding it
    begun,            \* per task: subtasks whose async_work was called
    ended,            \* per task: subtasks that reported to their sink
    finish,           \* per task: <<r>> once the last subtask reported Finish(r)
    callbacks,        \* per task: every result the callback was invoked with
    ranOn,            \* per task: the pools its subtasks were executed on
    admits,           \* per task: admission checks passed in Runner::run
    verdict           \* per task: outcome of its last Runner::run

\* One DAGContext (coprocessor/dag/dag.rs) and the executor it drives.
VARIABLES
    streaming,        \* the `streaming` argument of every handle_request call
    batch_row_limit,  \* DAGContext.batch_row_limit
    chunks_per_stream,\* DAGContext.chunks_per_stream
    rows,             \* the keys of the rows the executor yields, in its order
    exec_pos,         \* rows the executor has yielded so far
    last_key,         \* the executor's last key: <<>> or <<key>>
    chunks,           \* DAGContext.chunks: each chunk the sequence of its rows
    outdated,         \* the request's deadline has passed
    returns           \* per handle_request call so far: what it returned and
                      \* what happened in it

\* One TiKVStorage (coprocessor/dag/storage_impl.rs) and the statistics of
\* its store and scanners, each a count of accesses.
VARIABLES
    scanner,          \* TiKVStorage.scanner: <<>> or <<statistics not yet taken>>
    range_scanner,    \* TiKVStorage.range_scanner: likewise
    get_statistics,   \* the store's incremental-get statistics not yet taken
    cf_stats_backlog, \* TiKVStorage.cf_stats_backlog
    produced,         \* accesses counted by the store and all scanners so far
    delivered,        \* total added to the destinations of collect_statistics
    collected,        \* what each collect_statistics since the last access added
    range_id,         \* which begin_range_scan call built the range scanner; 0: none
    range_scans,      \* per begin_range_scan call: its steps and what it returned
    yielded,          \* <<call, calls so far>> of each range_scan_next_batch
    scan_built,       \* a begin_scan has returned Ok
    scan_pos,         \* entries of its range the live scanner has moved past
    scanned           \* what scan_next returned since the scanner was built

workerVars == <<max_read_tasks, worker, mailbox, priority, poolq, task_count, occupied,
                pool_stopped, stop_calls, stop_failed, worker_lock,
                begun, ended, finish, callbacks, ranOn, admits, verdict>>
dagVars == <<streaming, batch_row_limit, chunks_per_stream, rows, exec_pos, last_key,
             chunks, outdated, returns>>
\* One owned physical key (components/keys/src/v2.rs, BasicPhysicalKey) built
\* from a user key, and what the operations on it returned.
VARIABLES
    uk,               \* the user key the physical key was allocated from
    pk,               \* the physical key's Vec<u8>
    attached,         \* the timestamps appended by append_ts and not shrunk
    guard,            \* <<>>, or <<g>>: the live PhysicalKeyTsGuard, with the
                      \* timestamp it was made with and the key before it
    last_op               \* the last operation and what it returned

\* One call of prefix_next (coprocessor/util.rs) on a caller's key.
VARIABLES
    px_key,           \* the caller's key, borrowed by the call
    px_call           \* <<>>, or <<c>>: the argument of the call and its result

\* One ReadPool (util/readpool/mod.rs) and the futures handed to it.
VARIABLES
    rp_queue,         \* per pool: the futures spawned on it and not yet run
    rp_futures        \* per future_execute call: the priority, the pool, the
                      \* outcome of the future given and how the returned
                      \* future has resolved

\* One call of inflate_cols (coprocessor/dag/dag.rs) for a row, and the chunk
\* the row's data goes to.
VARIABLES
    ic_cols,          \* the ColumnInfo of each column of the table
    ic_row,           \* the row: its handle and the values stored per column id
    ic_offsets,       \* output_offsets
    ic_chunk,         \* rows_data of the current chunk
    ic_ret            \* <<>>, or <<r>>: what inflate_cols returned

\* One call of an RPN function (coprocessor/dag/rpn_expr/impl_op.rs).
VARIABLES
    rpn_args,         \* <<arg0, arg1>>, each <<>> for None or <<v>> for Some(v)
    rpn_call          \* <<>>, or <<c>>: the function called and what it returned

\* One owned key of a PhysicalKey type (components/keys/src/v2.rs), operated
\* on through the methods the trait provides, in any order.
VARIABLES
    kp_prefix,        \* PHYSICAL_PREFIX of the key's type
    kp_checks,        \* the build has integer overflow checks on
    kp_key,           \* the key's Vec<u8>
    kp_guard,         \* a PhysicalKeyTsGuard on the key is live
    kp_last           \* <<>>, or <<c>>: the last call and how it ended

rangeVars == <<range_id, range_scans, yielded>>
scanVars == <<scan_built, scan_pos, scanned>>
storageVars == <<scanner, range_scanner, get_statistics, cf_stats_backlog,
                 produced, delivered, collected, rangeVars, scanVars>>

keysVars == <<uk, pk, attached, guard, last_op>>
prefixVars == <<px_key, px_call>>
readPoolVars == <<rp_queue, rp_futures>>
inflateVars == <<ic_cols, ic_row, ic_offsets, ic_chunk, ic_ret>>
rpnVars == <<rpn_args, rpn_call>>
keyOpsVars == <<kp_prefix, kp_checks, kp_key, kp_guard, kp_last>>
moreVars == <<inflateVars, rpnVars, keyOpsVars>>
libVars == <<keysVars, prefixVars, readPoolVars, moreVars>>

vars == <<workerVars, dagVars, storageVars, libVars>>

poolVars == <<poolq, task_count, occupied, pool_stopped>>
histVars == <<begun, ended, finish, ranOn, admits, verdict>>
lifeVars == <<stop_calls, stop_failed, worker_lock>>

InSeq(s, x) == \E i \in 1..Len(s) : s[i] = x

\* Continue reports made so far by tasks 1..n: every report to a sink but a
\* task's Finish.
RECURSIVE ContinuesUpTo(_)
ContinuesUpTo(n) ==
    IF n = 0 THEN 0
    ELSE ContinuesUpTo(n - 1) + ended[n] - (IF finish[n] # <<>> THEN 1 ELSE 0)

\* No DAGContext has been built.
DagNone ==
    /\ streaming = FALSE
    /\ batch_row_limit = 1
    /\ chunks_per_stream = 1
    /\ rows = <<>>
    /\ exec_pos = 0
    /\ last_key = <<>>
    /\ chunks = <<>>
    /\ outdated = FALSE
    /\ returns = <<>>

\* No TiKVStorage has been built.
StorageNoAdapter ==
    /\ scanner = <<>>
    /\ range_scanner = <<>>
    /\ get_statistics = 0
    /\ cf_stats_backlog = 0
    /\ produced = 0
    /\ delivered = 0
    /\ collected = <<>>
    /\ range_id = 0
    /\ range_scans = <<>>
    /\ yielded = {}
    /\ scan_built = FALSE
    /\ scan_pos = 0
    /\ scanned = <<>>

\* No physical key has been allocated.
KeysNone ==
    /\ uk = <<>>
    /\ pk = <<>>
    /\ attached = <<>>
    /\ guard = <<>>
    /\ last_op = [op |-> "none"]

\* prefix_next is not being called.
PrefixNone ==
    /\ px_key = <<>>
    /\ px_call = <<>>

\* No ReadPool has been built.
ReadPoolNone ==
    /\ rp_queue = <<>>
    /\ rp_futures = <<>>

\* inflate_cols is not being called.
InflateNone ==
    /\ ic_cols = <<>>
    /\ ic_row = <<>>
    /\ ic_offsets = <<>>
    /\ ic_chunk = <<>>
    /\ ic_ret = <<>>

\* No RPN function is being called.
RpnNone ==
    /\ rpn_args = <<>>
    /\ rpn_call = <<>>

\* No key of a PhysicalKey type is operated on.
KeyOpsNone ==
    /\ kp_prefix = <<>>
    /\ kp_checks = FALSE
    /\ kp_key = <<>>
    /\ kp_guard = FALSE
    /\ kp_last = <<>>

MoreNone == InflateNone /\ RpnNone /\ KeyOpsNone

LibNone == KeysNone /\ PrefixNone /\ ReadPoolNone /\ MoreNone

\* GrpcRequestWorker::new
WorkerInit ==
    /\ max_read_tasks \in {1, MaxReadTasks}
    /\ worker = "created"
    /\ mailbox = <<>>
    /\ priority = [t \in Tasks |-> NoPriority]
    /\ poolq = [p \in Pools |-> <<>>]
    /\ task_count = [p \in Pools |-> 0]
    /\ occupied = [p \in Pools |-> 0]
    /\ pool_stopped = [p \in Pools |-> FALSE]
    /\ stop_calls = [p \in Pools |-> 0]
    /\ stop_failed = {}
    /\ worker_lock = "free"
    /\ begun = [t \in Tasks |-> 0]
    /\ ended = [t \in Tasks |-> 0]
    /\ finish = [t \in Tasks |-> <<>>]
    /\ callbacks = [t \in Tasks |-> <<>>]
    /\ ranOn = [t \in Tasks |-> {}]
    /\ admits = [t \in Tasks |-> 0]
    /\ verdict = [t \in Tasks |-> "none"]

\* The request worker alone.
Init == WorkerInit /\ DagNone /\ StorageNoAdapter /\ LibNone

\* ------------------------------------------------- scheduler and callback
\* Scheduler::schedule: Stopped once the worker is shutting down, Full when the
\* bounded input queue is at capacity, Ok otherwise.
schedule(t) ==
    IF worker \in {"stopping", "stopped"} THEN "Stopped"
    ELSE IF Len(mailbox) >= MailboxCap THEN "Full"
    ELSE "Ok"

\* (t.callback)(r)
Fire(t, r) == callbacks' = [callbacks EXCEPT ![t] = Append(@, r)]

\* A plausible slip: the Full arm reports SchedulerBusy and still queues the task.
schedule_task_FullStillQueued(t) ==
    CASE schedule(t) = "Full" ->
            /\ Fire(t, Err("SchedulerBusy"))
            /\ mailbox' = Append(mailbox, t)
      [] schedule(t) = "Stopped" ->
            /\ Fire(t, Err("SchedulerStopped"))
            /\ mailbox' = mailbox
      [] schedule(t) = "Ok" ->
            /\ mailbox' = Append(mailbox, t)
            /\ callbacks' = callbacks

\* fn schedule_task(scheduler, t)
schedule_task(t) ==
    CASE schedule(t) = "Full" ->
            /\ Fire(t, Err("SchedulerBusy"))
            /\ mailbox' = mailbox
      [] schedule(t) = "Stopped" ->
            /\ Fire(t, Err("SchedulerStopped"))
            /\ mailbox' = mailbox
      [] schedule(t) = "Ok" ->
            /\ mailbox' = Append(mailbox, t)
            /\ callbacks' = callbacks

\* ------------------------------------------------------------------ Runner
\* A plausible slip: two arms of the match share a pool.
get_pool_by_priority_LowOnNormal(pr) ==
    CASE pr = "ReadCritical" -> "pool_read_critical"
      [] pr = "ReadHigh"     -> "pool_read_high"
      [] pr = "ReadNormal"   -> "pool_read_normal"
      [] pr = "ReadLow"      -> "pool_read_normal"

\* Runner::get_pool_by_priority
get_pool_by_priority(pr) ==
    CASE pr = "ReadCritical" -> "pool_read_critical"
      [] pr = "ReadHigh"     -> "pool_read_high"
      [] pr = "ReadNormal"   -> "pool_read_normal"
      [] pr = "ReadLow"      -> "pool_read_low"

\* ThreadPool::get_task_count
get_task_count(p) == task_count[p]

\* Plausible slips: an off-by-one comparison; a check over all pools.
is_pool_busy_OffByOne(p) == get_task_count(p) > max_read_tasks
is_pool_busy_AnyPool(p) == \E q \in Pools : get_task_count(q) >= max_read_tasks

\* Runner::is_pool_busy
is_pool_busy(p) == get_task_count(p) >= max_read_tasks

\* ThreadPool::execute: the closure is queued and counted.
pool_execute(p, t) ==
    /\ poolq' = [poolq EXCEPT ![p] = Append(@, t)]
    /\ task_count' = [task_count EXCEPT ![p] = @ + 1]

\* A plausible slip: the PoolBusy arm lacks its return, so the task is rejected
\* and executed.
RunnerRun_NoReturn ==
    /\ worker \in {"running", "stopping"}
    /\ mailbox # <<>>
    /\ LET t == Head(mailbox)
           pool == get_pool_by_priority(priority[t])
       IN  /\ mailbox' = Tail(mailbox)
           /\ IF is_pool_busy(pool)
              THEN /\ Fire(t, Err("PoolBusy"))
                   /\ verdict' = [verdict EXCEPT ![t] = "busy"]
                   /\ UNCHANGED admits
              ELSE /\ callbacks' = callbacks
                   /\ verdict' = [verdict EXCEPT ![t] = "admitted"]
                   /\ admits' = [admits EXCEPT ![t] = @ + 1]
           /\ pool_execute(pool, t)
    /\ UNCHANGED <<max_read_tasks, worker, priority, occupied, pool_stopped,
                   begun, ended, finish, ranOn>>
    /\ UNCHANGED lifeVars
    /\ UNCHANGED <<dagVars, storageVars, libVars>>

\* Runner::run, called by the scheduler thread on the task at the head of the
\* mailbox: admission check, then PoolBusy or pool.execute(closure).
RunnerRun ==
    /\ worker \in {"running", "stopping"}
    /\ mailbox # <<>>
    /\ LET t == Head(mailbox)
           pool == get_pool_by_priority(priority[t])
       IN  /\ mailbox' = Tail(mailbox)
           /\ IF is_pool_busy(pool)
              THEN /\ Fire(t, Err("PoolBusy"))
                   /\ verdict' = [verdict EXCEPT ![t] = "busy"]
                   /\ UNCHANGED <<admits, poolq, task_count>>
              ELSE /\ pool_execute(pool, t)
                   /\ callbacks' = callbacks
                   /\ verdict' = [verdict EXCEPT ![t] = "admitted"]
                   /\ admits' = [admits EXCEPT ![t] = @ + 1]
    /\ UNCHANGED <<max_read_tasks, worker, priority, occupied, pool_stopped,
                   begun, ended, finish, ranOn>>
    /\ UNCHANGED lifeVars
    /\ UNCHANGED <<dagVars, storageVars, libVars>>

\* A pool thread takes the next closure and runs it up to the call of
\* subtask.async_work: let subtask = t.subtask.take().unwrap().
ClosureBegin(p) ==
    /\ ~pool_stopped[p]
    /\ poolq[p] # <<>>
    /\ occupied[p] < Concurrency(p)
    /\ LET t == Head(poolq[p])
       IN  /\ poolq' = [poolq EXCEPT ![p] = Tail(@)]
           /\ occupied' = [occupied EXCEPT ![p] = @ + 1]
           /\ begun' = [begun EXCEPT ![t] = @ + 1]
           /\ ranOn' = [ranOn EXCEPT ![t] = @ \cup {p}]
    /\ UNCHANGED <<max_read_tasks, worker, mailbox, priority, task_count,
                   pool_stopped, ended, finish, callbacks, admits, verdict>>
    /\ UNCHANGED lifeVars
    /\ UNCHANGED <<dagVars, storageVars, libVars>>

\* A plausible slip: the Continue arm hands the next subtask straight to the
\* pool, without the scheduler and its admission check.
SinkContinue_Inline(t) ==
    /\ begun[t] > ended[t]
    /\ ContinuesUpTo(NumTasks) < MaxContinues
    /\ ended' = [ended EXCEPT ![t] = @ + 1]
    /\ pool_execute(get_pool_by_priority(priority[t]), t)
    /\ UNCHANGED <<max_read_tasks, worker, mailbox, priority, occupied, pool_stopped,
                   begun, finish, callbacks, ranOn, admits, verdict>>
    /\ UNCHANGED lifeVars
    /\ UNCHANGED <<dagVars, storageVars, libVars>>

\* The sink's Continue arm: t.subtask = Some(new_subtask); schedule_task(..).
SinkContinue(t) ==
    /\ begun[t] > ended[t]
    /\ ContinuesUpTo(NumTasks) < MaxContinues
    /\ ended' = [ended EXCEPT ![t] = @ + 1]
    /\ schedule_task(t)
    /\ UNCHANGED <<max_read_tasks, worker, priority, poolq, task_count, occupied,
                   pool_stopped, begun, finish, ranOn, admits, verdict>>
    /\ UNCHANGED lifeVars
    /\ UNCHANGED <<dagVars, storageVars, libVars>>

\* A plausible slip: the Finish arm reports success whatever the subtask said.
SinkFinish_AlwaysNone(t, r) ==
    /\ begun[t] > ended[t]
    /\ ended' = [ended EXCEPT ![t] = @ + 1]
    /\ finish' = [finish EXCEPT ![t] = <<r>>]
    /\ Fire(t, Ok(StorageNone))
    /\ UNCHANGED <<max_read_tasks, worker, mailbox, priority, poolq, task_count,
                   occupied, pool_stopped, begun, ranOn, admits, verdict>>
    /\ UNCHANGED lifeVars
    /\ UNCHANGED <<dagVars, storageVars, libVars>>

\* The sink's Finish arm: (t.callback)(result).
SinkFinish(t, r) ==
    /\ begun[t] > ended[t]
    /\ ended' = [ended EXCEPT ![t] = @ + 1]
    /\ finish' = [finish EXCEPT ![t] = <<r>>]
    /\ Fire(t, r)
    /\ UNCHANGED <<max_read_tasks, worker, mailbox, priority, poolq, task_count,
                   occupied, pool_stopped, begun, ranOn, admits, verdict>>
    /\ UNCHANGED lifeVars
    /\ UNCHANGED <<dagVars, storageVars, libVars>>

\* The closure given to pool.execute returns: its thread is free again and the
\* pool no longer counts it.
ClosureReturn(p) ==
    /\ occupied[p] > 0
    /\ occupied' = [occupied EXCEPT ![p] = @ - 1]
    /\ task_count' = [task_count EXCEPT ![p] = @ - 1]
    /\ UNCHANGED <<max_read_tasks, worker, mailbox, priority, poolq, pool_stopped,
                   callbacks>>
    /\ UNCHANGED histVars
    /\ UNCHANGED lifeVars
    /\ UNCHANGED <<dagVars, storageVars, libVars>>

\* ThreadPool::stop: the shutdown flag is raised, the threads are joined (they
\* finish the closure they are in and take no other), and the pool is destroyed
\* with the closures still queued in it.
pool_stop_joined(p) == occupied[p] = 0
pool_stop_queue(p) == <<>>

\* The outcomes of the four stop() calls of one shutdown, as the set of pools
\* whose stop() returns Err: none, any single pool, or all of them.
StopFailures == {{}} \cup {{p} : p \in Pools} \cup {Pools}

\* The position of pool p in the order of Runner::shutdown.
StopIndex(p) == CHOOSE i \in 1..Len(ShutdownOrder) : ShutdownOrder[i] = p

\* A plausible slip: the four stops chained with `?`, so that the first Err
\* ends the shutdown.
shutdown_stops_UntilErr(failing) ==
    {p \in Pools : \A q \in failing : StopIndex(p) <= StopIndex(q)}

\* The pools Runner::shutdown calls stop() on when the stops of `failing`
\* return Err: each `if let Err(e) = pool.stop() { warn!(..) }` falls through.
shutdown_stops(failing) == Pools

\* Runner::shutdown, run by the scheduler thread once its mailbox is drained:
\* stop() on each of the four pools, in the order of the source. With it the
\* scheduler thread ends, so the join in GrpcRequestWorker::shutdown returns
\* and the guard of the worker mutex is dropped.
RunnerShutdown ==
    /\ worker = "stopping"
    /\ mailbox = <<>>
    /\ \A i \in 1..Len(ShutdownOrder) : pool_stop_joined(ShutdownOrder[i])
    /\ \E failing \in StopFailures :
          LET stops == shutdown_stops(failing)
          IN  /\ stop_calls' = [p \in Pools |->
                                  IF p \in stops THEN stop_calls[p] + 1 ELSE stop_calls[p]]
              /\ stop_failed' = failing \cap stops
              /\ pool_stopped' = [p \in Pools |-> pool_stopped[p] \/ p \in stops]
              /\ poolq' = [p \in Pools |->
                             IF p \in stops THEN pool_stop_queue(p) ELSE poolq[p]]
    /\ worker' = "stopped"
    /\ worker_lock' = "free"
    /\ UNCHANGED <<max_read_tasks, mailbox, priority, task_count, occupied, callbacks>>
    /\ UNCHANGED histVars
    /\ UNCHANGED <<dagVars, storageVars, libVars>>

\* ------------------------------------------------------- GrpcRequestWorker
\* The priorities a caller gives task t: any for the first task; for a later
\* one a priority already in use or the first one not yet in use, counting on
\* from the first task's. The four pools are configured alike, so every other
\* choice is one of these with the pools renamed.
PriorityIndex(pr) == CHOOSE i \in 1..Len(PriorityOrder) : PriorityOrder[i] = pr
PriorityAfter(pr, k) ==
    PriorityOrder[((PriorityIndex(pr) - 1 + k) % Len(PriorityOrder)) + 1]
PrioritiesFor(t) ==
    IF t = 1 THEN Priorities
    ELSE LET used == {priority[u] : u \in 1..(t - 1)}
             fresh == {k \in 1..(Len(PriorityOrder) - 1) :
                          PriorityAfter(priority[1], k) \notin used}
         IN  used \cup
             (IF fresh = {} THEN {}
              ELSE {PriorityAfter(priority[1],
                       CHOOSE k \in fresh : \A j \in fresh : k <= j)})

\* A plausible slip: async_execute reaches the scheduler through the worker,
\* self.worker.lock().unwrap().scheduler(), and so waits for the mutex.
AsyncExecute_UnderLock(t, pr) ==
    /\ worker_lock = "free"
    /\ priority[t] = NoPriority
    /\ \A u \in Tasks : u < t => priority[u] # NoPriority
    /\ pr \in PrioritiesFor(t)
    /\ priority' = [priority EXCEPT ![t] = pr]
    /\ schedule_task(t)
    /\ UNCHANGED <<max_read_tasks, worker>>
    /\ UNCHANGED poolVars
    /\ UNCHANGED histVars
    /\ UNCHANGED lifeVars
    /\ UNCHANGED <<dagVars, storageVars, libVars>>

\* GrpcRequestWorker::async_execute: build the Task and schedule_task it.
AsyncExecute(t, pr) ==
    /\ priority[t] = NoPriority
    /\ \A u \in Tasks : u < t => priority[u] # NoPriority
    /\ pr \in PrioritiesFor(t)
    /\ priority' = [priority EXCEPT ![t] = pr]
    /\ schedule_task(t)
    /\ UNCHANGED <<max_read_tasks, worker>>
    /\ UNCHANGED poolVars
    /\ UNCHANGED histVars
    /\ UNCHANGED lifeVars
    /\ UNCHANGED <<dagVars, storageVars, libVars>>

\* GrpcRequestWorker::start up to `self.worker.lock().unwrap()`: the caller
\* holds the worker mutex while it builds the four pools.
StartLock ==
    /\ worker = "created"
    /\ worker_lock = "free"
    /\ worker_lock' = "start"
    /\ UNCHANGED <<max_read_tasks, worker, mailbox, priority, callbacks,
                   stop_calls, stop_failed>>
    /\ UNCHANGED poolVars
    /\ UNCHANGED histVars
    /\ UNCHANGED <<dagVars, storageVars, libVars>>

\* GrpcRequestWorker::start from worker.start(runner): the scheduler thread
\* starts and the guard is dropped on return.
Start ==
    /\ worker = "created"
    /\ worker_lock = "start"
    /\ worker' = "running"
    /\ worker_lock' = "free"
    /\ UNCHANGED <<max_read_tasks, mailbox, priority, callbacks, stop_calls, stop_failed>>
    /\ UNCHANGED poolVars
    /\ UNCHANGED histVars
    /\ UNCHANGED <<dagVars, storageVars, libVars>>

\* GrpcRequestWorker::shutdown: the mutex is taken, worker.stop() closes the
\* scheduler, and the caller joins the scheduler thread with the mutex held;
\* the join ends with RunnerShutdown.
Shutdown ==
    /\ worker = "running"
    /\ worker_lock = "free"
    /\ worker' = "stopping"
    /\ worker_lock' = "shutdown"
    /\ UNCHANGED <<max_read_tasks, mailbox, priority, callbacks, stop_calls, stop_failed>>
    /\ UNCHANGED poolVars
    /\ UNCHANGED histVars
    /\ UNCHANGED <<dagVars, storageVars, libVars>>

Next ==
    \/ StartLock
    \/ Start
    \/ \E t \in Tasks, pr \in Priorities : AsyncExecute(t, pr)
    \/ RunnerRun
    \/ \E p \in Pools : ClosureBegin(p)
    \/ \E t \in Tasks : SinkContinue(t)
    \/ \E t \in Tasks, r \in SubTaskResults : SinkFinish(t, r)
    \/ \E p \in Pools : ClosureReturn(p)
    \/ Shutdown
    \/ RunnerShutdown

Spec == Init /\ [][Next]_vars

\* ============================================================ DAG handler
\* coprocessor/dag/dag.rs: DAGContext::handle_request drives an executor and
\* shapes its rows into chunks and response frames; coprocessor/util.rs gives
\* prefix_next.

\* ------------------------------------------------------------------ bounds
MaxRows == 5              \* rows the executor can yield
MaxBatchRowLimit == 2     \* largest batch_row_limit
MaxChunksPerStream == 2   \* largest chunks_per_stream

\* ------------------------------------------------------------ byte strings
\* A key is a byte string: a sequence over 0..255. The keys stored in the
\* scanned table, in ascending order; some end in 0xFF bytes.
KeyOrder ==
    << <<1>>, <<1, 255>>, <<2, 0>>, <<3>>, <<255>>, <<255, 255>>, <<255, 255, 255>> >>

\* The order of Vec<u8>: lexicographic over the bytes, a proper prefix first.
RECURSIVE LexLess(_, _)
LexLess(a, b) ==
    IF b = <<>> THEN FALSE
    ELSE IF a = <<>> THEN TRUE
    ELSE IF Head(a) # Head(b) THEN Head(a) < Head(b)
    ELSE LexLess(Tail(a), Tail(b))

LexLeq(a, b) == a = b \/ LexLess(a, b)

\* A plausible slip: the loop ends at the first 0xFF byte it zeroes.
prefix_next_loop_StopAtCarry(key, nk, i) ==
    IF nk[i] = 255
    THEN IF i = 1 THEN Append(key, 0) ELSE [nk EXCEPT ![i] = 0]
    ELSE [nk EXCEPT ![i] = nk[i] + 1]

\* A plausible slip: the 0xFF bytes passed over are left as they are.
RECURSIVE prefix_next_loop_NoCarryZero(_, _, _)
prefix_next_loop_NoCarryZero(key, nk, i) ==
    IF nk[i] = 255
    THEN IF i = 1
         THEN Append(key, 0)
         ELSE prefix_next_loop_NoCarryZero(key, nk, i - 1)
    ELSE [nk EXCEPT ![i] = nk[i] + 1]

\* A plausible slip: on an all-0xFF key the zeroed copy is kept.
RECURSIVE prefix_next_loop_NoReset(_, _, _)
prefix_next_loop_NoReset(key, nk, i) ==
    IF nk[i] = 255
    THEN IF i = 1
         THEN Append([nk EXCEPT ![i] = 0], 0)
         ELSE prefix_next_loop_NoReset(key, [nk EXCEPT ![i] = 0], i - 1)
    ELSE [nk EXCEPT ![i] = nk[i] + 1]

\* The loop of prefix_next at index i (counted from 1), nk being the copy
\* worked on: a 0xFF byte becomes 0 and the loop moves left; any other byte is
\* incremented and ends it; when the first byte was 0xFF too, the result is
\* the original key with a 0 byte appended.
RECURSIVE prefix_next_loop(_, _, _)
prefix_next_loop(key, nk, i) ==
    IF nk[i] = 255
    THEN IF i = 1
         THEN Append(key, 0)
         ELSE prefix_next_loop(key, [nk EXCEPT ![i] = 0], i - 1)
    ELSE [nk EXCEPT ![i] = nk[i] + 1]

\* pub fn prefix_next(key: &[u8]) -> Vec<u8>
prefix_next(key) ==
    IF key = <<>> THEN <<0>> ELSE prefix_next_loop(key, key, Len(key))

\* ------------------------------------------------------------ the executor
\* The indices of I in ascending order.
RECURSIVE Ascending(_)
Ascending(I) ==
    IF I = {} THEN <<>>
    ELSE LET m == CHOOSE m \in I : \A j \in I : m <= j
         IN  <<m>> \o Ascending(I \ {m})

Reverse(s) == [i \in 1..Len(s) |-> s[Len(s) + 1 - i]]

\* What an executor over the table can yield: the keys of any selection of
\* the table's rows, ascending (forward scan) or descending (backward scan).
Scans ==
    LET table == 1..(IF MaxRows < Len(KeyOrder) THEN MaxRows ELSE Len(KeyOrder))
        forward == {[i \in 1..Cardinality(I) |-> KeyOrder[Ascending(I)[i]]] :
                       I \in SUBSET table}
    IN  forward \cup {Reverse(s) : s \in forward}

\* The kinds of coprocessor::Error an executor's next() fails with.
ErrorKinds == {"Other", "Locked"}

\* Executor::next() once `pos` rows were yielded, under the inputs `in` of the
\* call: the failure the storage raises at row in.fail_at, else the next row,
\* else the end of the scan.
exec_next(in, pos) ==
    IF in.fail_at = pos + 1 THEN in.fail_kind
    ELSE IF pos < Len(rows) THEN "Row"
    ELSE "None"

\* ReqContext::check_if_outdated at the c-th check of a call: the deadline
\* has passed before the call, or passes before check in.expire_at of it.
check_if_outdated(in, c) ==
    outdated \/ (in.expire_at # 0 /\ c >= in.expire_at)

\* ------------------------------------------------------------- DAGContext
\* A plausible slip: the deadline is consulted only where a chunk is opened.
row_is_checked_AtChunkOnly(chs, record_cnt) ==
    chs = <<>> \/ record_cnt >= batch_row_limit

\* self.req_ctx.check_if_outdated()? stands first in the Ok(Some(row)) arm:
\* every row the executor yields is followed by the check.
row_is_checked(chs, record_cnt) == TRUE

\* if self.chunks.is_empty() || record_cnt >= self.batch_row_limit
opens_chunk(chs, record_cnt) ==
    chs = <<>> \/ record_cnt >= batch_row_limit

\* A plausible slip: the split does not ask for streaming mode.
splits_stream_AnyMode(chs) == Len(chs) >= chunks_per_stream

\* if streaming && self.chunks.len() >= self.chunks_per_stream
splits_stream(chs) == streaming /\ Len(chs) >= chunks_per_stream

\* Plausible slips: the inverted pair is not swapped; the end key is reported
\* as it is, without prefix_next.
make_response_range_NoSwap(start_key, end_key) ==
    CASE start_key # <<>> /\ end_key # <<>> ->
            <<start_key[1], prefix_next(end_key[1])>>
      [] start_key # <<>> /\ end_key = <<>> ->
            <<start_key[1], prefix_next(start_key[1])>>
      [] OTHER -> <<>>
make_response_range_EndAsIs(start_key, end_key) ==
    CASE start_key # <<>> /\ end_key # <<>> ->
            IF LexLess(end_key[1], start_key[1])
            THEN <<end_key[1], start_key[1]>>
            ELSE <<start_key[1], end_key[1]>>
      [] start_key # <<>> /\ end_key = <<>> ->
            <<start_key[1], prefix_next(start_key[1])>>
      [] OTHER -> <<>>

\* The match of make_response over (start_key, end_key), each <<>> for None
\* or <<key>> for Some(key): the range set on the response, <<start, end>>, or
\* <<>> when none is set.
make_response_range(start_key, end_key) ==
    CASE start_key # <<>> /\ end_key # <<>> ->
            IF LexLess(end_key[1], start_key[1])
            THEN <<end_key[1], prefix_next(start_key[1])>>
            ELSE <<start_key[1], prefix_next(end_key[1])>>
      [] start_key # <<>> /\ end_key = <<>> ->
            <<start_key[1], prefix_next(start_key[1])>>
      [] OTHER -> <<>>

\* The arm `_ => unreachable!()` of that match.
make_response_unreachable(start_key, end_key) == start_key = <<>> /\ end_key # <<>>

\* What a call returns, with the (start_key, end_key) it gave make_response.
Returned(kind, remain, chs, range, other_error, err, start_key, end_key) ==
    [kind |-> kind, remain |-> remain, chunks |-> chs, range |-> range,
     other_error |-> other_error, err |-> err,
     start_key |-> start_key, end_key |-> end_key]

\* A plausible slip: the chunks are copied into the response and stay.
chunks_after_take_Kept(chs) == chs

\* let chunks = mem::replace(&mut self.chunks, Vec::new()): what self.chunks
\* holds once make_response has taken the chunks `chs` out of it.
chunks_after_take(chs) == <<>>

\* DAGContext::make_response(remain, start_key, end_key) over the chunks `chs`
\* taken out of self.chunks.
make_response(remain, start_key, end_key, chs) ==
    IF make_response_unreachable(start_key, end_key)
    THEN Returned("Panic", FALSE, <<>>, <<>>, FALSE, "", start_key, end_key)
    ELSE Returned("Ok", remain, chs, make_response_range(start_key, end_key),
                  FALSE, "", start_key, end_key)

\* A plausible slip: every executor error is propagated.
error_in_band_Never(kind) == FALSE

\* if let Error::Other(_) = e
error_in_band(kind) == kind = "Other"

\* The Err(e) arm of handle_request.
on_exec_error(kind) ==
    IF error_in_band(kind)
    THEN Returned("Ok", FALSE, <<>>, <<>>, TRUE, "", <<>>, <<>>)
    ELSE Returned("Err", FALSE, <<>>, <<>>, FALSE, kind, <<>>, <<>>)

\* The result the cop subtask of the request reports with Finish once
\* handle_request has returned `ret`: its error, or the frame.
cop_task_result(ret) ==
    IF ret.kind = "Err" THEN Err(ret.err) ELSE Ok(<<ret.remain, ret.chunks, ret.range>>)

\* A plausible slip: the key of the call's first row is not kept as start key.
start_key_at_row_NotKept(first_row, start_key, key) == start_key

\* if first_row { first_row = false; start_key = self.exec.take_last_key(); }
\* at a row of key `key`: the call's start key after it.
start_key_at_row(first_row, start_key, key) ==
    IF first_row THEN <<key>> ELSE start_key

\* The end of a call: what it returns and what it leaves in the executor and
\* in self.chunks, with the rows it pulled and the error the executor raised
\* (<<>> for none).
Outcome(ret, pos, lk, chs, pulled, exec_error) ==
    [ret |-> ret, exec_pos |-> pos, last_key |-> lk, chunks |-> chs,
     pulled |-> pulled, exec_error |-> exec_error]

\* The loop of handle_request from the state st of its locals (record_cnt,
\* first_row, start_key), of the executor (pos, last_key) and of self.chunks.
RECURSIVE handle_request_loop(_, _)
handle_request_loop(in, st) ==
    LET nx == exec_next(in, st.pos)
    IN  CASE nx = "Row" ->
               LET pos1 == st.pos + 1
                   pulled == st.pulled + 1
                   key == rows[pos1]
                   checked == row_is_checked(st.chunks, st.record_cnt)
                   checks == st.checks + (IF checked THEN 1 ELSE 0)
               IN  IF checked /\ check_if_outdated(in, checks)
                   THEN Outcome(Returned("Err", FALSE, <<>>, <<>>, FALSE, "Outdated",
                                         <<>>, <<>>),
                                pos1, <<key>>, st.chunks, pulled, <<>>)
                   ELSE
                   LET start_key == start_key_at_row(st.first_row, st.start_key, key)
                       lk == IF st.first_row THEN <<>> ELSE <<key>>
                       open == opens_chunk(st.chunks, st.record_cnt)
                       emit == open /\ splits_stream(st.chunks)
                       kept == IF emit THEN chunks_after_take(st.chunks) ELSE st.chunks
                       opened == IF open THEN Append(kept, <<>>) ELSE kept
                       record_cnt == (IF open THEN 0 ELSE st.record_cnt) + 1
                       chs == [opened EXCEPT ![Len(opened)] = Append(@, pos1)]
                   IN  IF emit
                       THEN Outcome(make_response(TRUE, start_key, lk, st.chunks),
                                    pos1, <<>>, chs, pulled, <<>>)
                       ELSE handle_request_loop(in,
                                [pos |-> pos1, last_key |-> lk, chunks |-> chs,
                                 record_cnt |-> record_cnt, first_row |-> FALSE,
                                 start_key |-> start_key, checks |-> checks,
                                 pulled |-> pulled])
          [] nx = "None" ->
               Outcome(make_response(FALSE, st.start_key, st.last_key, st.chunks),
                       st.pos, <<>>, chunks_after_take(st.chunks), st.pulled, <<>>)
          [] OTHER ->
               Outcome(on_exec_error(nx), st.pos, st.last_key, st.chunks, st.pulled,
                       <<nx>>)

\* The state handle_request starts its loop in.
handle_request_entry ==
    [pos |-> exec_pos, last_key |-> last_key, chunks |-> chunks,
     record_cnt |-> 0, first_row |-> TRUE, start_key |-> <<>>,
     checks |-> 0, pulled |-> 0]

\* The caller asks for the next frame while the last one said remain = true.
MoreToAsk ==
    IF returns = <<>> THEN TRUE
    ELSE returns[Len(returns)].ret.kind = "Ok" /\ returns[Len(returns)].ret.remain

\* What can happen during one call: the executor fails at one of the rows not
\* yet yielded or at the end of the scan, or does not fail; the deadline
\* passes before one of the checks of the call, or does not.
CallInputs ==
    LET left == Len(rows) - exec_pos
    IN  {[fail_at |-> 0, fail_kind |-> "Other", expire_at |-> e] : e \in 0..(left + 1)}
        \cup {[fail_at |-> f, fail_kind |-> k, expire_at |-> e] :
                 f \in (exec_pos + 1)..(Len(rows) + 1), k \in ErrorKinds,
                 e \in 0..(left + 1)}

\* DAGContext::handle_request(streaming) from its entry to its return.
HandleRequestCall ==
    /\ \E in \in CallInputs :
          LET out == handle_request_loop(in, handle_request_entry)
          IN  /\ exec_pos' = out.exec_pos
              /\ last_key' = out.last_key
              /\ chunks' = out.chunks
              /\ outdated' = (outdated \/ in.expire_at # 0)
              /\ returns' = Append(returns,
                    [ret |-> out.ret, pulled |-> out.pulled,
                     exec_error |-> out.exec_error,
                     failed_at |-> IF out.exec_error = <<>> THEN 0 ELSE in.fail_at,
                     was_outdated |-> outdated, expire_at |-> in.expire_at])
    /\ UNCHANGED <<streaming, batch_row_limit, chunks_per_stream, rows>>
    /\ UNCHANGED <<workerVars, storageVars, libVars>>

\* One call DAGContext::handle_request(streaming) of a caller that asks for a
\* frame while the last one said remain = true.
HandleRequest == MoreToAsk /\ HandleRequestCall

\* The request worker as constructed, with the smallest max_read_tasks.
WorkerIdle == WorkerInit /\ max_read_tasks = 1

\* DAGContext::new: the limits, the mode the caller asks in, and the executor
\* built over the ranges and the snapshot.
DagInit ==
    /\ streaming \in BOOLEAN
    /\ batch_row_limit \in 1..MaxBatchRowLimit
    /\ chunks_per_stream \in (IF streaming THEN 0..MaxChunksPerStream ELSE {1})
    /\ rows \in Scans
    /\ exec_pos = 0
    /\ last_key = <<>>
    /\ chunks = <<>>
    /\ outdated = FALSE
    /\ returns = <<>>
    /\ WorkerIdle
    /\ StorageNoAdapter
    /\ LibNone

DagNext == HandleRequest

SpecDag == DagInit /\ [][DagNext]_vars

\* ------------------------------------------------ calls in any sequence
\* DAGContext::handle_request is public and takes `streaming` per call: a
\* caller may call it again after any return, with either value.
MaxCalls == 2       \* handle_request calls on one DAGContext
MaxScanned == 3     \* rows of the forward scans called in any sequence

\* No call of handle_request has panicked.
NoPanic == \A i \in 1..Len(returns) : returns[i].ret.kind # "Panic"

\* One call of handle_request, whatever the calls before it returned.
HandleRequestAnyTime ==
    /\ Len(returns) < MaxCalls
    /\ NoPanic
    /\ HandleRequestCall

\* The caller passes the other value of `streaming` to its next call.
ChooseMode ==
    /\ returns # <<>>
    /\ Len(returns) < MaxCalls
    /\ NoPanic
    /\ streaming' = ~streaming
    /\ UNCHANGED <<batch_row_limit, chunks_per_stream, rows, exec_pos, last_key,
                   chunks, outdated, returns>>
    /\ UNCHANGED <<workerVars, storageVars, libVars>>

DagAnyCallsNext == HandleRequestAnyTime \/ ChooseMode

\* A DAGContext over a forward scan of the first rows of the table.
DagAnyCallsInit ==
    /\ DagInit
    /\ \E n \in 0..MaxScanned :
          /\ n <= Len(KeyOrder)
          /\ rows = [i \in 1..n |-> KeyOrder[i]]

SpecDagAnyCalls == DagAnyCallsInit /\ [][DagAnyCallsNext]_vars

\* ========================================================= storage adapter
\* coprocessor/dag/storage_impl.rs: TiKVStorage over a Store, with the
\* statistics of its store, scanner and range scanner. Statistics are counts
\* of accesses; Statistics::add is their sum.

\* ------------------------------------------------------------------ bounds
MaxAccesses == 3    \* accesses counted in one run
MaxCollects == 2    \* collect_statistics calls in a row
MaxRangeScans == 2  \* begin_range_scan calls in one run

\* Scanner::take_statistics / RangeScanner::take_statistics on Some(scanner):
\* the counters since the last call are returned and reset.
taken_statistics(sc) == sc[1]
after_take_statistics(sc) == <<0>>

\* What `if let Some(s) = &mut self.<scanner> { backlog.add(&s.take_statistics()) }`
\* adds to the backlog and leaves in the field.
folded(sc) == IF sc = <<>> THEN 0 ELSE taken_statistics(sc)
after_fold(sc) == IF sc = <<>> THEN <<>> ELSE after_take_statistics(sc)

\* One more access counted by a live scanner.
counted(sc) == <<sc[1] + 1>>

\* Every operation but collect_statistics ends a row of collect_statistics
\* calls.
Accessed == collected' = <<>>

\* TiKVStorage::begin_scan; `built` tells whether store.scanner(..) returns Ok.
BeginScan(built) ==
    /\ cf_stats_backlog' = cf_stats_backlog + folded(scanner)
    /\ scanner' = IF built THEN <<0>> ELSE after_fold(scanner)
    /\ scan_built' = (scan_built \/ built)
    /\ scan_pos' = IF built THEN 0 ELSE scan_pos
    /\ scanned' = IF built THEN <<>> ELSE scanned
    /\ Accessed
    /\ UNCHANGED <<range_scanner, get_statistics, produced, delivered, rangeVars>>
    /\ UNCHANGED <<workerVars, dagVars, libVars>>

\* Scanner::next at position pos of the scanner's range: the entry after it
\* is returned and the scanner moves past it. Entries are told by their
\* place in the range.
scanner_next(pos) == [entry |-> pos + 1, pos |-> pos + 1]

\* TiKVStorage::scan_next: the scanner returns its next entry and counts the
\* access.
ScanNext ==
    /\ scanner # <<>>
    /\ produced < MaxAccesses
    /\ scanner' = counted(scanner)
    /\ produced' = produced + 1
    /\ scan_pos' = scanner_next(scan_pos).pos
    /\ scanned' = Append(scanned, [entry |-> scanner_next(scan_pos).entry,
                                   after_collect |-> collected # <<>>])
    /\ Accessed
    /\ UNCHANGED <<range_scanner, get_statistics, cf_stats_backlog, delivered, rangeVars,
                   scan_built>>
    /\ UNCHANGED <<workerVars, dagVars, libVars>>

\* A plausible slip: the new range scanner is installed before its lock scan.
begin_range_scan_steps_InstallFirst(outcome) ==
    IF outcome = "Build" THEN <<"build">>
    ELSE <<"build", "install", "scan_first_lock">>

\* The steps of begin_range_scan after the old scanner's statistics are
\* folded: `?` returns at the step that fails.
begin_range_scan_steps(outcome) ==
    IF outcome = "Build" THEN <<"build">>
    ELSE IF outcome = "Lock" THEN <<"build", "scan_first_lock">>
    ELSE <<"build", "scan_first_lock", "install">>

\* What begin_range_scan returns: scan_first_lock fails with KeyIsLocked on
\* a conflicting lock in the range.
begin_range_scan_result(outcome) ==
    IF outcome = "Build" THEN "Other"
    ELSE IF outcome = "Lock" THEN "KeyIsLocked"
    ELSE "Ok"

Installs(steps) == \E i \in 1..Len(steps) : steps[i] = "install"

\* TiKVStorage::begin_range_scan. `outcome` is "Ok", or the step that fails:
\* "Build" (build_range_scanner_forward) or "Lock" (scan_first_lock on a
\* range that holds a conflicting lock). The accesses are those of
\* range_scan_next_batch; what scan_first_lock itself reads is not counted
\* here.
BeginRangeScan(outcome) ==
    /\ Len(range_scans) < MaxRangeScans
    /\ cf_stats_backlog' = cf_stats_backlog + folded(range_scanner)
    /\ LET steps == begin_range_scan_steps(outcome)
       IN  /\ range_scanner' = IF Installs(steps) THEN <<0>>
                               ELSE after_fold(range_scanner)
           /\ range_id' = IF Installs(steps) THEN Len(range_scans) + 1 ELSE range_id
           /\ range_scans' = Append(range_scans,
                                    [outcome |-> outcome, steps |-> steps,
                                     result |-> begin_range_scan_result(outcome)])
    /\ Accessed
    /\ UNCHANGED <<scanner, get_statistics, produced, delivered, yielded, scanVars>>
    /\ UNCHANGED <<workerVars, dagVars, libVars>>

\* TiKVStorage::range_scan_next_batch: the range scanner counts the access.
RangeScanNextBatch ==
    /\ range_scanner # <<>>
    /\ produced < MaxAccesses
    /\ range_scanner' = counted(range_scanner)
    /\ produced' = produced + 1
    /\ yielded' = yielded \cup {<<range_id, Len(range_scans)>>}
    /\ Accessed
    /\ UNCHANGED <<scanner, get_statistics, cf_stats_backlog, delivered,
                   range_id, range_scans, scanVars>>
    /\ UNCHANGED <<workerVars, dagVars, libVars>>

\* TiKVStorage::get: store.incremental_get counts the access in the store.
Get ==
    /\ produced < MaxAccesses
    /\ get_statistics' = get_statistics + 1
    /\ produced' = produced + 1
    /\ Accessed
    /\ UNCHANGED <<scanner, range_scanner, cf_stats_backlog, delivered, rangeVars,
                   scanVars>>
    /\ UNCHANGED <<workerVars, dagVars, libVars>>

\* A plausible slip: the backlog is added to dest and not reset.
backlog_after_collect_Kept(backlog) == backlog

\* self.cf_stats_backlog = Statistics::default()
backlog_after_collect(backlog) == 0

\* A plausible slip: the scanner is moved out of the field to be read.
scanner_after_collect_Taken(sc) == <<>>

\* The live scanner after collect_statistics took its statistics.
scanner_after_collect(sc) == after_fold(sc)

\* TiKVStorage::collect_statistics(dest): the store's incremental-get
\* statistics and the live scanner's are taken into the backlog, the backlog
\* is added to dest and reset.
CollectStatistics ==
    /\ Len(collected) < MaxCollects
    /\ LET backlog == cf_stats_backlog + get_statistics + folded(scanner)
       IN  /\ get_statistics' = 0
           /\ scanner' = scanner_after_collect(scanner)
           /\ delivered' = delivered + backlog
           /\ collected' = Append(collected, backlog)
           /\ cf_stats_backlog' = backlog_after_collect(backlog)
    /\ UNCHANGED <<range_scanner, produced, rangeVars, scanVars>>
    /\ UNCHANGED <<workerVars, dagVars, libVars>>

\* TiKVStorage::new
StorageInit ==
    /\ scanner = <<>>
    /\ range_scanner = <<>>
    /\ get_statistics = 0
    /\ cf_stats_backlog = 0
    /\ produced = 0
    /\ delivered = 0
    /\ collected = <<>>
    /\ range_id = 0
    /\ range_scans = <<>>
    /\ yielded = {}
    /\ scan_built = FALSE
    /\ scan_pos = 0
    /\ scanned = <<>>
    /\ WorkerIdle
    /\ DagNone
    /\ LibNone

StorageNext ==
    \/ \E built \in BOOLEAN : BeginScan(built)
    \/ ScanNext
    \/ \E outcome \in {"Ok", "Build", "Lock"} : BeginRangeScan(outcome)
    \/ RangeScanNextBatch
    \/ Get
    \/ CollectStatistics

SpecStorage == StorageInit /\ [][StorageNext]_vars

\* ============================================================ key encoding
\* components/keys/src/v2.rs: an owned physical key is its prefix, the
\* memcomparable encoding of the user key and an optional 8-byte descending
\* timestamp. A byte is 0..255; a u64 is four 16-bit limbs, the most
\* significant first.

\* ------------------------------------------------------------------ bounds
MaxUserLen == 8     \* bytes of a user key

UserBytes == {0, 255}
UserKeys == UNION {[1..n -> UserBytes] : n \in 0..MaxUserLen}
Timestamps == { <<0, 0, 0, 0>>, <<0, 0, 0, 1>>, <<0, 0, 0, 256>>,
                <<0, 0, 1, 0>>, <<65535, 65535, 65535, 65535>> }

\* ---------------------------------------------------------- codec::number
u64_not(ts) == [i \in 1..4 |-> 65535 - ts[i]]
u64_to_be_bytes(ts) ==
    << ts[1] \div 256, ts[1] % 256, ts[2] \div 256, ts[2] % 256,
       ts[3] \div 256, ts[3] % 256, ts[4] \div 256, ts[4] % 256 >>
u64_from_be_bytes(b) ==
    << b[1] * 256 + b[2], b[3] * 256 + b[4], b[5] * 256 + b[6], b[7] * 256 + b[8] >>
U64Less(a, b) == LexLess(a, b)

\* NumberEncoder::write_u64 / write_u64_desc and NumberDecoder::read_u64_desc
write_u64(ts) == u64_to_be_bytes(ts)
write_u64_desc(ts) == u64_to_be_bytes(u64_not(ts))
read_u64_desc(b) == u64_not(u64_from_be_bytes(b))

\* ------------------------------------------------------------ codec::byte
Zeros(n) == [i \in 1..n |-> 0]

\* A plausible slip: the marker of the last group is the padding count.
group_marker_PadCount(pad) == pad

\* The byte that closes a group of 8 with `pad` bytes of padding.
group_marker(pad) == 255 - pad

\* MemComparableByteCodec::encoded_len
encoded_len(n) == (n \div 8 + 1) * 9

\* write_comparable_bytes: groups of 8 bytes and a marker; the last group is
\* padded with zeros, and is all padding when the length is a multiple of 8.
RECURSIVE write_comparable_bytes(_)
write_comparable_bytes(bs) ==
    IF Len(bs) >= 8
    THEN SubSeq(bs, 1, 8) \o <<group_marker(0)>>
             \o write_comparable_bytes(SubSeq(bs, 9, Len(bs)))
    ELSE bs \o Zeros(8 - Len(bs)) \o <<group_marker(8 - Len(bs))>>

\* read_comparable_bytes: group by group until a marker tells of padding.
RECURSIVE read_comparable_bytes_from(_, _)
read_comparable_bytes_from(bs, acc) ==
    IF Len(bs) < 9 THEN [ok |-> FALSE, err |-> "Truncated"]
    ELSE LET pad == 255 - bs[9]
         IN  IF pad = 0
             THEN read_comparable_bytes_from(SubSeq(bs, 10, Len(bs)),
                                             acc \o SubSeq(bs, 1, 8))
             ELSE IF pad > 8 \/ pad < 0 THEN [ok |-> FALSE, err |-> "PaddingError"]
             ELSE IF \E i \in (9 - pad)..8 : bs[i] # 0
                  THEN [ok |-> FALSE, err |-> "PaddingError"]
             ELSE [ok |-> TRUE, value |-> acc \o SubSeq(bs, 1, 8 - pad)]

read_comparable_bytes(bs) == read_comparable_bytes_from(bs, <<>>)

\* ------------------------------------------------------------- PhysicalKey
\* BasicPhysicalKey::PHYSICAL_PREFIX = b""
PHYSICAL_PREFIX == <<>>

alloc_with_logical_capacity(capacity) == PHYSICAL_PREFIX

\* A plausible slip: the user key is written as it is.
alloc_from_user_std_slice_Raw(u) ==
    alloc_with_logical_capacity(encoded_len(Len(u))) \o u

alloc_from_user_std_slice(u) ==
    alloc_with_logical_capacity(encoded_len(Len(u))) \o write_comparable_bytes(u)

\* A plausible slip: the timestamp is written ascending.
append_ts_Ascending(k, ts) == k \o write_u64(ts)

append_ts(k, ts) == k \o write_u64_desc(ts)

shrink_ts(k) == SubSeq(k, 1, Len(k) - 8)

\* BasicPhysicalKeySlice::as_logical_slice: the bytes after the prefix.
as_logical_slice(k) == SubSeq(k, Len(PHYSICAL_PREFIX) + 1, Len(k))

\* LogicalKeySlice::get_ts and PhysicalKey::get_ts
LogicalKeySlice_get_ts(s) == read_u64_desc(SubSeq(s, Len(s) - 7, Len(s)))
get_ts(k) == LogicalKeySlice_get_ts(as_logical_slice(k))

\* LogicalKeySlice::alloc_to_user_vec
alloc_to_user_vec(s) == read_comparable_bytes(s)

\* PhysicalKeyTsGuard::new
PhysicalKeyTsGuard_new(k, ts) == append_ts(k, ts)

\* A plausible slip: the guard's Drop leaves the key as it is.
PhysicalKeyTsGuard_drop_Keep(k) == k

\* Drop for PhysicalKeyTsGuard
PhysicalKeyTsGuard_drop(k) == shrink_ts(k)

\* The ways a scope that holds a guard is left; Drop runs on each.
ExitPaths == {"scope_end", "early_return", "unwind"}

\* key.append_ts(ts) on a key with no timestamp and no live guard.
AppendTs(ts) ==
    /\ attached = <<>>
    /\ guard = <<>>
    /\ pk' = append_ts(pk, ts)
    /\ attached' = <<ts>>
    /\ last_op' = [op |-> "append_ts", before |-> pk]
    /\ UNCHANGED <<uk, guard>>
    /\ UNCHANGED <<workerVars, dagVars, storageVars, prefixVars, readPoolVars, moreVars>>

\* key.shrink_ts() on a key that carries a timestamp.
ShrinkTs ==
    /\ attached # <<>>
    /\ guard = <<>>
    /\ pk' = shrink_ts(pk)
    /\ attached' = <<>>
    /\ last_op' = [op |-> "shrink_ts"]
    /\ UNCHANGED <<uk, guard>>
    /\ UNCHANGED <<workerVars, dagVars, storageVars, prefixVars, readPoolVars, moreVars>>

\* let g = key.with_ts_temporarily(ts): the key is borrowed by the guard.
WithTsTemporarily(ts) ==
    /\ guard = <<>>
    /\ pk' = PhysicalKeyTsGuard_new(pk, ts)
    /\ guard' = <<[ts |-> ts, before |-> pk]>>
    /\ last_op' = [op |-> "with_ts_temporarily"]
    /\ UNCHANGED <<uk, attached>>
    /\ UNCHANGED <<workerVars, dagVars, storageVars, prefixVars, readPoolVars, moreVars>>

\* The scope of the guard is left on `path` and the guard is dropped.
GuardRelease(path) ==
    /\ guard # <<>>
    /\ pk' = PhysicalKeyTsGuard_drop(pk)
    /\ guard' = <<>>
    /\ last_op' = [op |-> "drop", path |-> path, before |-> guard[1].before]
    /\ UNCHANGED <<uk, attached>>
    /\ UNCHANGED <<workerVars, dagVars, storageVars, prefixVars, readPoolVars, moreVars>>

\* key.get_ts(), on the key or through the guard, when a timestamp is there.
GetTs ==
    /\ attached # <<>> \/ guard # <<>>
    /\ last_op' = [op |-> "get_ts", ts |-> get_ts(pk)]
    /\ UNCHANGED <<uk, pk, attached, guard>>
    /\ UNCHANGED <<workerVars, dagVars, storageVars, prefixVars, readPoolVars, moreVars>>

\* key.as_logical_slice().alloc_to_user_vec()
AllocToUserVec ==
    /\ last_op' = [op |-> "alloc_to_user_vec", ret |-> alloc_to_user_vec(as_logical_slice(pk))]
    /\ UNCHANGED <<uk, pk, attached, guard>>
    /\ UNCHANGED <<workerVars, dagVars, storageVars, prefixVars, readPoolVars, moreVars>>

\* How the user key u2 stands to the key's own user key.
Relation(u1, u2) ==
    IF u1 = u2 THEN "equal"
    ELSE IF Len(u1) < Len(u2) /\ SubSeq(u2, 1, Len(u1)) = u1
         THEN IF \A i \in (Len(u1) + 1)..Len(u2) : u2[i] = 0
              THEN "zero_extended" ELSE "extended"
    ELSE IF Len(u2) < Len(u1) /\ SubSeq(u1, 1, Len(u2)) = u2 THEN "prefix"
    ELSE "differs"

\* The freshly allocated key is compared (Ord of BasicPhysicalKey, the order
\* of its Vec<u8>) with the key allocated from another user key.
CompareUser(u2) ==
    /\ last_op.op = "alloc_from_user_std_slice"
    /\ last_op' = [op |-> "cmp_user", rel |-> Relation(uk, u2),
               user_le |-> LexLeq(uk, u2),
               key_le |-> LexLeq(pk, alloc_from_user_std_slice(u2))]
    /\ UNCHANGED <<uk, pk, attached, guard>>
    /\ UNCHANGED <<workerVars, dagVars, storageVars, prefixVars, readPoolVars, moreVars>>

\* The key with its timestamp is compared with the same key carrying t2.
CompareTs(t2) ==
    /\ attached # <<>>
    /\ guard = <<>>
    /\ last_op' = [op |-> "cmp_ts", ts_lt |-> U64Less(attached[1], t2),
               ts_eq |-> attached[1] = t2,
               other_lt |-> LexLess(append_ts(shrink_ts(pk), t2), pk)]
    /\ UNCHANGED <<uk, pk, attached, guard>>
    /\ UNCHANGED <<workerVars, dagVars, storageVars, prefixVars, readPoolVars, moreVars>>

\* PhysicalKey::alloc_from_user_std_slice(uk)
KeysInit ==
    /\ uk \in UserKeys
    /\ pk = alloc_from_user_std_slice(uk)
    /\ attached = <<>>
    /\ guard = <<>>
    /\ last_op = [op |-> "alloc_from_user_std_slice"]
    /\ WorkerIdle
    /\ DagNone
    /\ StorageNoAdapter
    /\ PrefixNone
    /\ ReadPoolNone
    /\ MoreNone

KeysNext ==
    \/ \E ts \in Timestamps : AppendTs(ts)
    \/ ShrinkTs
    \/ \E ts \in Timestamps : WithTsTemporarily(ts)
    \/ \E path \in ExitPaths : GuardRelease(path)
    \/ GetTs
    \/ AllocToUserVec
    \/ \E u2 \in UserKeys : CompareUser(u2)
    \/ \E t2 \in Timestamps : CompareTs(t2)

SpecKeys == KeysInit /\ [][KeysNext]_vars

\* ============================================================= prefix_next
\* coprocessor/util.rs: prefix_next called on a caller's key.

\* ------------------------------------------------------------------ bounds
MaxKeyLen == 3      \* bytes of the key given to prefix_next

PrefixBytes == {0, 97, 254, 255}
PrefixKeys == UNION {[1..n -> PrefixBytes] : n \in 0..MaxKeyLen}

\* `let mut nk = key.to_vec()`: the call works on a copy, the borrowed key
\* stays as it is.
key_after_prefix_next(k) == k

\* let ret = prefix_next(&px_key)
PrefixNext ==
    /\ px_call = <<>>
    /\ px_call' = <<[arg |-> px_key, ret |-> prefix_next(px_key)]>>
    /\ px_key' = key_after_prefix_next(px_key)
    /\ UNCHANGED <<workerVars, dagVars, storageVars, keysVars, readPoolVars, moreVars>>

\* The caller lets go of the result.
PrefixDone ==
    /\ px_call # <<>>
    /\ px_call' = <<>>
    /\ UNCHANGED px_key
    /\ UNCHANGED <<workerVars, dagVars, storageVars, keysVars, readPoolVars, moreVars>>

PrefixInit ==
    /\ px_key \in PrefixKeys
    /\ px_call = <<>>
    /\ WorkerIdle
    /\ DagNone
    /\ StorageNoAdapter
    /\ KeysNone
    /\ ReadPoolNone
    /\ MoreNone

PrefixNextStep == PrefixNext \/ PrefixDone

SpecPrefix == PrefixInit /\ [][PrefixNextStep]_vars

\* ================================================================ ReadPool
\* util/readpool/mod.rs: three FuturePools, one per priority. A future is
\* told by the outcome it completes with; the handle future_execute returns
\* is pending (<<>>) until a thread of the pool has run the spawned future.

\* ------------------------------------------------------------------ bounds
MaxFutures == 2     \* future_execute calls in one run

ReadPools == {"pool_high", "pool_normal", "pool_low"}
ReadPriorities == {"High", "Normal", "Low"}

\* The futures of test_future_execute: future::ok(vec![1, 2, 4]) and
\* future::err(box_err!("foobar")), the description as its bytes.
FutureOutcomes == { [ok |-> TRUE, value |-> <<1, 2, 4>>],
                    [ok |-> FALSE, value |-> <<102, 111, 111, 98, 97, 114>>] }

\* ReadPool::get_pool_by_priority
ReadPool_get_pool_by_priority(pr) ==
    CASE pr = "High"   -> "pool_high"
      [] pr = "Normal" -> "pool_normal"
      [] pr = "Low"    -> "pool_low"

\* A plausible slip: the error of the future is swallowed before it is spawned.
future_execute_ErrSwallowed(pr, future) ==
    [pool |-> ReadPool_get_pool_by_priority(pr),
     spawned |-> IF future.ok THEN future ELSE [ok |-> TRUE, value |-> <<>>]]

\* ReadPool::future_execute: the pool and the future spawned on it.
future_execute(pr, future) ==
    [pool |-> ReadPool_get_pool_by_priority(pr), spawned |-> future]

\* What the CpuFuture of FuturePool::spawn resolves to once a pool thread has
\* run the spawned future to completion.
cpu_future_resolved(spawned) == <<spawned>>

\* read_pool.future_execute(pr, future)
FutureExecute(pr, future) ==
    /\ Len(rp_futures) < MaxFutures
    /\ LET call == future_execute(pr, future)
           id == Len(rp_futures) + 1
       IN  /\ rp_queue' = [rp_queue EXCEPT ![call.pool] =
                               Append(@, [id |-> id, spawned |-> call.spawned])]
           /\ rp_futures' = Append(rp_futures,
                                   [priority |-> pr, pool |-> call.pool,
                                    given |-> future, handle |-> <<>>])
    /\ UNCHANGED <<workerVars, dagVars, storageVars, keysVars, prefixVars, moreVars>>

\* A thread of `pool` runs one of the futures spawned on it.
PoolRun(pool) ==
    \E i \in 1..Len(rp_queue[pool]) :
        LET task == rp_queue[pool][i]
        IN  /\ rp_queue' = [rp_queue EXCEPT ![pool] =
                                SubSeq(@, 1, i - 1) \o SubSeq(@, i + 1, Len(@))]
            /\ rp_futures' = [rp_futures EXCEPT ![task.id].handle =
                                  cpu_future_resolved(task.spawned)]
            /\ UNCHANGED <<workerVars, dagVars, storageVars, keysVars, prefixVars, moreVars>>

\* ReadPool::new
ReadPoolInit ==
    /\ rp_queue = [pool \in ReadPools |-> <<>>]
    /\ rp_futures = <<>>
    /\ WorkerIdle
    /\ DagNone
    /\ StorageNoAdapter
    /\ KeysNone
    /\ PrefixNone
    /\ MoreNone

ReadPoolNext ==
    \/ \E pr \in ReadPriorities, future \in FutureOutcomes : FutureExecute(pr, future)
    \/ \E pool \in ReadPools : PoolRun(pool)

SpecReadPool == ReadPoolInit /\ [][ReadPoolNext]_vars

\* ============================================================ inflate_cols
\* coprocessor/dag/dag.rs: the row data of a non-aggregation row, column by
\* column of output_offsets. An i64 handle is its 64 bits as four 16-bit
\* limbs, the most significant first; `h as u64` keeps the bits.

\* ------------------------------------------------------------------ bounds
MaxOffsets == 2     \* entries of output_offsets

ColumnIds == {1, 2}

\* tipb ColumnInfo: the column id is the index here; pk_handle, the unsigned
\* and NOT NULL flags, and whether a default value is set.
ColumnInfos ==
    [pk_handle : BOOLEAN, unsigned : BOOLEAN, has_default : BOOLEAN, not_null : BOOLEAN]

\* The handles 7 and -1.
Handles == { <<0, 0, 0, 7>>, <<65535, 65535, 65535, 65535>> }

\* A value written to the row data: where it came from, for which column, and
\* the datum it encodes.
Value(from, col_id, tag, bits) ==
    [from |-> from, col |-> col_id, tag |-> tag, bits |-> bits]
NoBits == <<0, 0, 0, 0>>

\* util::get_pk(col, h)
get_pk(col, h) ==
    IF col.unsigned THEN [tag |-> "U64", bits |-> h]
    ELSE [tag |-> "I64", bits |-> h]

\* A plausible slip: the default is tried before the pk handle.
inflate_col_DefaultFirst(col_id, col, row) ==
    IF col_id \in row.stored
    THEN [ok |-> TRUE, value |-> Value("stored", col_id, "Bytes", NoBits)]
    ELSE IF col.has_default
    THEN [ok |-> TRUE, value |-> Value("default", col_id, "Bytes", NoBits)]
    ELSE IF col.pk_handle
    THEN LET datum == get_pk(col, row.handle)
         IN  [ok |-> TRUE, value |-> Value("pk", col_id, datum.tag, datum.bits)]
    ELSE IF col.not_null
    THEN [ok |-> FALSE, value |-> Value("missing", col_id, "None", row.handle)]
    ELSE [ok |-> TRUE, value |-> Value("null", col_id, "Null", NoBits)]

\* The match of inflate_cols on data.get(col_id) for one output column: the
\* value to append, or the error "column {col_id} of {handle} is missing".
inflate_col(col_id, col, row) ==
    IF col_id \in row.stored
    THEN [ok |-> TRUE, value |-> Value("stored", col_id, "Bytes", NoBits)]
    ELSE IF col.pk_handle
    THEN LET datum == get_pk(col, row.handle)
         IN  [ok |-> TRUE, value |-> Value("pk", col_id, datum.tag, datum.bits)]
    ELSE IF col.has_default
    THEN [ok |-> TRUE, value |-> Value("default", col_id, "Bytes", NoBits)]
    ELSE IF col.not_null
    THEN [ok |-> FALSE, value |-> Value("missing", col_id, "None", row.handle)]
    ELSE [ok |-> TRUE, value |-> Value("null", col_id, "Null", NoBits)]

\* The loop of inflate_cols from output offset i on, `values` being the Vec
\* built so far: Ok(values), or the Err of the first column that fails.
RECURSIVE inflate_cols_from(_, _, _, _, _)
inflate_cols_from(row, cols, output_offsets, i, values) ==
    IF i > Len(output_offsets) THEN [ok |-> TRUE, values |-> values]
    ELSE LET col_id == output_offsets[i]
             r == inflate_col(col_id, cols[col_id], row)
         IN  IF r.ok
             THEN inflate_cols_from(row, cols, output_offsets, i + 1,
                                    Append(values, r.value))
             ELSE [ok |-> FALSE, values |-> <<r.value>>]

inflate_cols(row, cols, output_offsets) ==
    inflate_cols_from(row, cols, output_offsets, 1, <<>>)

\* let value = inflate_cols(..)?; chunk.mut_rows_data().extend_from_slice(&value)
rows_data_after_inflate(rows_data, r) ==
    IF r.ok THEN rows_data \o r.values ELSE rows_data

\* The non-aggregation branch of handle_request for one row.
InflateCols ==
    /\ ic_ret = <<>>
    /\ LET r == inflate_cols(ic_row, ic_cols, ic_offsets)
       IN  /\ ic_ret' = <<[ok |-> r.ok, values |-> r.values, before |-> ic_chunk]>>
           /\ ic_chunk' = rows_data_after_inflate(ic_chunk, r)
    /\ UNCHANGED <<ic_cols, ic_row, ic_offsets>>
    /\ UNCHANGED <<workerVars, dagVars, storageVars, keysVars, prefixVars,
                   readPoolVars, rpnVars, keyOpsVars>>

\* The executor yields the next row, with the same stored columns and
\* another handle.
InflateNextRow ==
    /\ ic_ret # <<>>
    /\ ic_ret[1].ok
    /\ Len(ic_chunk) <= Len(ic_offsets)
    /\ \E h \in Handles : ic_row' = [ic_row EXCEPT !.handle = h]
    /\ ic_ret' = <<>>
    /\ UNCHANGED <<ic_cols, ic_offsets, ic_chunk>>
    /\ UNCHANGED <<workerVars, dagVars, storageVars, keysVars, prefixVars,
                   readPoolVars, rpnVars, keyOpsVars>>

InflateInit ==
    /\ ic_cols \in [ColumnIds -> ColumnInfos]
    /\ ic_row \in [handle : Handles, stored : SUBSET ColumnIds]
    /\ ic_offsets \in UNION {[1..n -> ColumnIds] : n \in 0..MaxOffsets}
    /\ ic_chunk = <<>>
    /\ ic_ret = <<>>
    /\ WorkerIdle
    /\ DagNone
    /\ StorageNoAdapter
    /\ KeysNone
    /\ PrefixNone
    /\ ReadPoolNone
    /\ RpnNone
    /\ KeyOpsNone

InflateNext == InflateCols \/ InflateNextRow

SpecInflate == InflateInit /\ [][InflateNext]_vars

\* ============================================================ RPN functions
\* The logical functions of src/src/coprocessor/dag/rpn_expr/impl_op.rs.  An
\* Option<i64> is <<>> for None and <<v>> for Some(v); the functions only ask
\* whether v is zero, so the width of v plays no part.
RpnInts == {-9, -1, 0, 1, 2, 3, 255}
RpnOptions == {<<>>} \cup { <<v>> : v \in RpnInts }

\* RpnFnLogicalAnd::call with the None arm of arg0 deciding alone.
RpnFnLogicalAnd_call_NullFirst(arg0, arg1) ==
    IF arg0 = <<>> THEN <<>>
    ELSE IF arg0 = <<0>> THEN <<0>>
    ELSE IF arg1 = <<>> THEN <<>>
    ELSE IF arg1 = <<0>> THEN <<0>>
    ELSE <<1>>

\* RpnFnLogicalAnd::call: the match on arg0, then on arg1, arm by arm.
RpnFnLogicalAnd_call(arg0, arg1) ==
    IF arg0 = <<>>
    THEN IF arg1 = <<0>> THEN <<0>> ELSE <<>>
    ELSE IF arg0 = <<0>> THEN <<0>>
    ELSE IF arg1 = <<>> THEN <<>>
    ELSE IF arg1 = <<0>> THEN <<0>>
    ELSE <<1>>

\* RpnFnLogicalOr::call.
RpnFnLogicalOr_call(arg0, arg1) ==
    IF arg0 = <<>>
    THEN IF arg1 = <<>> THEN <<>>
         ELSE IF arg1 = <<0>> THEN <<>>
         ELSE <<1>>
    ELSE IF arg0 = <<0>>
    THEN IF arg1 = <<>> THEN <<>>
         ELSE IF arg1 = <<0>> THEN <<0>>
         ELSE <<1>>
    ELSE <<1>>

\* One call of RpnFnLogicalAnd on the two arguments.
CallLogicalAnd ==
    /\ rpn_args # <<>>
    /\ rpn_call = <<>>
    /\ rpn_call' = <<[fn |-> "LogicalAnd",
                      ret |-> RpnFnLogicalAnd_call(rpn_args[1], rpn_args[2])]>>
    /\ UNCHANGED <<workerVars, dagVars, storageVars, keysVars, prefixVars,
                   readPoolVars, inflateVars, keyOpsVars, rpn_args>>

\* One call of RpnFnLogicalOr on the two arguments.
CallLogicalOr ==
    /\ rpn_args # <<>>
    /\ rpn_call = <<>>
    /\ rpn_call' = <<[fn |-> "LogicalOr",
                      ret |-> RpnFnLogicalOr_call(rpn_args[1], rpn_args[2])]>>
    /\ UNCHANGED <<workerVars, dagVars, storageVars, keysVars, prefixVars,
                   readPoolVars, inflateVars, keyOpsVars, rpn_args>>

RpnInit ==
    /\ WorkerIdle
    /\ DagNone
    /\ StorageNoAdapter
    /\ KeysNone
    /\ PrefixNone
    /\ ReadPoolNone
    /\ InflateNone
    /\ KeyOpsNone
    /\ rpn_args \in RpnOptions \X RpnOptions
    /\ rpn_call = <<>>

RpnNext == CallLogicalAnd \/ CallLogicalOr

SpecRpn == RpnInit /\ [][RpnNext]_vars

\* ====================================================== PhysicalKey methods
\* components/keys/src/v2.rs: the provided methods of trait PhysicalKey on a
\* key type with PHYSICAL_PREFIX `prefix`, called in any order on one key.
\* BasicPhysicalKey has the empty prefix; a type with a prefix of one byte
\* goes through the same methods.

\* ------------------------------------------------------------------ bounds
MaxKeyBytes == 26   \* bytes a key grows to

KeyPrefixes == {<<>>, <<122>>}
LogicalSlices == {<<>>, <<1, 1, 1>>, <<1, 1, 1, 1, 1, 1, 1>>}
PhysicalVecs == {<<>>, <<122>>, <<122, 1>>, <<1>>}
ShortUserKeys == {<<>>, <<1>>}
SuffixTimestamps == { <<0, 0, 0, 1>>, <<65535, 65535, 65535, 65535>> }

\* usize as four 16-bit limbs, most significant first.
usize(n) == <<0, 0, 0, n>>

\* `len - 8` on usize: with overflow checks a negative result panics (<<>>),
\* without them it wraps modulo 2^64.
usize_sub_8(len, checks) ==
    IF len >= 8 THEN <<usize(len - 8)>>
    ELSE IF checks THEN <<>>
    ELSE << <<65535, 65535, 65535, 65536 + len - 8>> >>

\* Vec::truncate(n): the first n elements are kept; nothing happens when n is
\* greater than the length.
Vec_truncate(v, n) ==
    IF n[1] = 0 /\ n[2] = 0 /\ n[3] = 0 /\ n[4] <= Len(v)
    THEN SubSeq(v, 1, n[4])
    ELSE v

\* How a call ends and what the key's bytes are after it.
Ended(end, bytes) == [end |-> end, key |-> bytes]

\* PhysicalKey::from_physical_vec(pk)
from_physical_vec(prefix, v) ==
    IF Len(prefix) <= Len(v) /\ SubSeq(v, 1, Len(prefix)) = prefix
    THEN Ended("ok", v)
    ELSE Ended("panic", <<>>)

\* PhysicalKey::alloc_from_logical_std_slice(lk)
alloc_from_logical_std_slice(prefix, lk) == Ended("ok", prefix \o lk)

\* PhysicalKey::shrink_ts:
\* let len = self._vec_ref().len(); self._vec_mut().truncate(len - 8);
shrink_ts_call(k, checks) ==
    LET n == usize_sub_8(Len(k), checks)
    IN  IF n = <<>> THEN Ended("panic", k)
        ELSE Ended("ok", Vec_truncate(k, n[1]))

\* PhysicalKey::reset_from_physical_slice(pk)
reset_from_physical_slice(k, slice) == Ended("ok", slice)

\* PhysicalKey::reset_from_logical_std_slice(lk)
reset_from_logical_std_slice(prefix, k, lk) ==
    Ended("ok", Vec_truncate(k, usize(Len(prefix))) \o lk)

\* PhysicalKey::reset_from_user_std_slice(uk)
reset_from_user_std_slice(prefix, k, u) ==
    Ended("ok", Vec_truncate(k, usize(Len(prefix))) \o write_comparable_bytes(u))

\* A call `op` on the key, ending as `r`.
KeyOp(op, r) ==
    /\ kp_key' = r.key
    /\ kp_last' = <<[op |-> op, end |-> r.end, before |-> kp_key]>>

\* No call so far has panicked, and no guard borrows the key.
KeyFree ==
    /\ kp_guard = FALSE
    /\ IF kp_last = <<>> THEN TRUE ELSE kp_last[1].end = "ok"

KeyOpsOthers == <<workerVars, dagVars, storageVars, keysVars, prefixVars,
                  readPoolVars, inflateVars, rpnVars>>

\* let key = K::from_physical_vec(v)
FromPhysicalVec(v) ==
    /\ KeyFree
    /\ KeyOp("from_physical_vec", from_physical_vec(kp_prefix, v))
    /\ UNCHANGED <<kp_prefix, kp_checks, kp_guard>>
    /\ UNCHANGED KeyOpsOthers

\* let key = K::alloc_from_logical_std_slice(lk)
AllocFromLogicalStdSlice(lk) ==
    /\ KeyFree
    /\ KeyOp("alloc_from_logical_std_slice", alloc_from_logical_std_slice(kp_prefix, lk))
    /\ UNCHANGED <<kp_prefix, kp_checks, kp_guard>>
    /\ UNCHANGED KeyOpsOthers

\* key.append_ts(ts)
KeyAppendTs(ts) ==
    /\ KeyFree
    /\ Len(kp_key) + 8 <= MaxKeyBytes
    /\ KeyOp("append_ts", Ended("ok", append_ts(kp_key, ts)))
    /\ UNCHANGED <<kp_prefix, kp_checks, kp_guard>>
    /\ UNCHANGED KeyOpsOthers

\* key.shrink_ts()
KeyShrinkTs ==
    /\ KeyFree
    /\ KeyOp("shrink_ts", shrink_ts_call(kp_key, kp_checks))
    /\ UNCHANGED <<kp_prefix, kp_checks, kp_guard>>
    /\ UNCHANGED KeyOpsOthers

\* let g = key.with_ts_temporarily(ts)
KeyWithTsTemporarily(ts) ==
    /\ KeyFree
    /\ Len(kp_key) + 8 <= MaxKeyBytes
    /\ KeyOp("with_ts_temporarily", Ended("ok", PhysicalKeyTsGuard_new(kp_key, ts)))
    /\ kp_guard' = TRUE
    /\ UNCHANGED <<kp_prefix, kp_checks>>
    /\ UNCHANGED KeyOpsOthers

\* The guard is dropped: Drop calls self.key.shrink_ts().
KeyGuardDrop ==
    /\ kp_guard = TRUE
    /\ KeyOp("drop", shrink_ts_call(kp_key, kp_checks))
    /\ kp_guard' = FALSE
    /\ UNCHANGED <<kp_prefix, kp_checks>>
    /\ UNCHANGED KeyOpsOthers

\* key.reset_from_physical_slice(pk), pk the slice of a key of the same type
\* over the logical key lk.
ResetFromPhysicalSlice(lk) ==
    /\ KeyFree
    /\ KeyOp("reset_from_physical_slice",
             reset_from_physical_slice(kp_key, alloc_from_logical_std_slice(kp_prefix, lk).key))
    /\ UNCHANGED <<kp_prefix, kp_checks, kp_guard>>
    /\ UNCHANGED KeyOpsOthers

\* key.reset_from_logical_std_slice(lk)
ResetFromLogicalStdSlice(lk) ==
    /\ KeyFree
    /\ KeyOp("reset_from_logical_std_slice",
             reset_from_logical_std_slice(kp_prefix, kp_key, lk))
    /\ UNCHANGED <<kp_prefix, kp_checks, kp_guard>>
    /\ UNCHANGED KeyOpsOthers

\* key.reset_from_user_std_slice(uk)
ResetFromUserStdSlice(u) ==
    /\ KeyFree
    /\ KeyOp("reset_from_user_std_slice",
             reset_from_user_std_slice(kp_prefix, kp_key, u))
    /\ UNCHANGED <<kp_prefix, kp_checks, kp_guard>>
    /\ UNCHANGED KeyOpsOthers

\* let key = K::alloc_with_logical_capacity(0), in a build with or without
\* overflow checks.
KeyOpsInit ==
    /\ kp_prefix \in KeyPrefixes
    /\ kp_checks \in BOOLEAN
    /\ kp_key = kp_prefix
    /\ kp_guard = FALSE
    /\ kp_last = <<>>
    /\ WorkerIdle
    /\ DagNone
    /\ StorageNoAdapter
    /\ KeysNone
    /\ PrefixNone
    /\ ReadPoolNone
    /\ InflateNone
    /\ RpnNone

KeyOpsNext ==
    \/ \E v \in PhysicalVecs : FromPhysicalVec(v)
    \/ \E lk \in LogicalSlices : AllocFromLogicalStdSlice(lk)
    \/ \E ts \in SuffixTimestamps : KeyAppendTs(ts)
    \/ KeyShrinkTs
    \/ \E ts \in SuffixTimestamps : KeyWithTsTemporarily(ts)
    \/ KeyGuardDrop
    \/ \E lk \in LogicalSlices : ResetFromPhysicalSlice(lk)
    \/ \E lk \in LogicalSlices : ResetFromLogicalStdSlice(lk)
    \/ \E u \in ShortUserKeys : ResetFromUserStdSlice(u)

SpecKeyOps == KeyOpsInit /\ [][KeyOpsNext]_vars

\* ================================================================== claims
\* The pool the specification assigns to each priority.
ExpectedPool(pr) ==
    CASE pr = "ReadCritical" -> "pool_read_critical"
      [] pr = "ReadHigh"     -> "pool_read_high"
      [] pr = "ReadNormal"   -> "pool_read_normal"
      [] pr = "ReadLow"      -> "pool_read_low"

Submitted(t) == priority[t] # NoPriority
Received(t, e) == InSeq(callbacks[t], Err(e))
Queued(t) == InSeq(mailbox, t) \/ \E p \in Pools : InSeq(poolq[p], t)
\* The step is Runner::run of task t: only Runner::run takes from the mailbox.
IsRunOf(t) == mailbox # <<>> /\ Head(mailbox) = t /\ mailbox' = Tail(mailbox)

\* C1: the callback of a task is invoked at most once, whatever the
\* interleaving of submission, admission, execution, continuation and shutdown.
C1_CallbackAtMostOnce == \A t \in Tasks : Len(callbacks[t]) <= 1

\* C1 witness: after a shutdown, a task that went through a continuation has
\* had its callback invoked.
C1_Witness ==
    /\ worker = "stopped"
    /\ \E t \in Tasks : ended[t] >= 2 /\ Len(callbacks[t]) = 1

\* C2: every task handed to async_execute has its callback invoked exactly
\* once. Stated on the runs that have come to rest: once shutdown has returned
\* and no subtask is still at work, nothing can fire a callback any more, so
\* every submitted task must have received exactly one result by then.
C2_CallbackExactlyOnce ==
    (worker = "stopped" /\ \A t \in Tasks : begun[t] = ended[t])
        => \A t \in Tasks : Submitted(t) => Len(callbacks[t]) = 1

\* C3: each pool holds at most max_read_tasks accepted and not yet completed
\* closures, counted by task_count and by what is queued or on a thread.
C3_PoolCap ==
    \A p \in Pools :
        /\ task_count[p] <= max_read_tasks
        /\ Len(poolq[p]) + occupied[p] <= max_read_tasks

\* C3 witness: a pool is at its cap and a task of its priority was turned away.
C3_Witness ==
    \E p \in Pools, t \in Tasks :
        /\ task_count[p] = max_read_tasks
        /\ Len(poolq[p]) + occupied[p] = max_read_tasks
        /\ Submitted(t) /\ ExpectedPool(priority[t]) = p
        /\ Received(t, "PoolBusy")

\* C4: a task dequeued by the runner while its pool has task_count >=
\* max_read_tasks gets Err(PoolBusy), nothing is added to the pool, and the
\* subtask it holds is never executed.
C4_PoolBusyRejects ==
    /\ [][\A t \in Tasks :
            (IsRunOf(t) /\ task_count[ExpectedPool(priority[t])] >= max_read_tasks)
                => /\ callbacks'[t] = Append(callbacks[t], Err("PoolBusy"))
                   /\ poolq' = poolq
                   /\ task_count' = task_count
                   /\ begun' = begun]_vars
    /\ [](\A t \in Tasks :
            Received(t, "PoolBusy") => begun[t] = ended[t] /\ ~Queued(t))

\* C4 witness: max_read_tasks = 1, two tasks of one priority; the second is
\* dequeued while the first is still running and receives PoolBusy.
C4_Witness ==
    /\ max_read_tasks = 1
    /\ \E t, u \in Tasks :
          /\ t # u /\ priority[t] = priority[u]
          /\ begun[t] = 1 /\ ended[t] = 0
          /\ callbacks[u] = <<Err("PoolBusy")>> /\ begun[u] = 0

\* C5: on Continue(next) the next subtask is not run inline: the task goes back
\* through the scheduler mailbox (or is rejected by the scheduler), and every
\* subtask that begins has passed an admission check of its own.
C5_ContinueReentersAdmission ==
    [][\A t \in Tasks :
          /\ (ended'[t] = ended[t] + 1 /\ finish'[t] = finish[t])
                => /\ begun'[t] = begun[t]
                   /\ poolq' = poolq
                   /\ \/ mailbox' = Append(mailbox, t) /\ callbacks' = callbacks
                      \/ /\ mailbox' = mailbox
                         /\ callbacks'[t] \in
                               {Append(callbacks[t], Err("SchedulerBusy")),
                                Append(callbacks[t], Err("SchedulerStopped"))}
          /\ (begun'[t] = begun[t] + 1) => admits[t] = begun'[t]]_vars

\* C5 witness: a task whose first subtask was admitted and ran is rejected with
\* PoolBusy on a later hop.
C5_Witness ==
    \E t \in Tasks : begun[t] >= 1 /\ Received(t, "PoolBusy")

\* C6: within a task at most one subtask is at work, the next one begins only
\* after the previous one has reported, and the callback comes after the last
\* subtask's report.
C6_SubtasksSequential ==
    \A t \in Tasks :
        /\ ended[t] <= begun[t]
        /\ begun[t] <= ended[t] + 1
        /\ callbacks[t] # <<>> => begun[t] = ended[t]

\* C6 witness: the second subtask of a task is at work on a pool two of whose
\* threads are inside closures.
C6_Witness ==
    \E t \in Tasks :
        /\ begun[t] = 2 /\ ended[t] = 1
        /\ occupied[ExpectedPool(priority[t])] >= 2

\* C7 as claimed: SchedulerBusy and SchedulerStopped reach only tasks none of
\* whose subtasks has been executed.
C7_RejectedBeforeAnySubtask ==
    \A t \in Tasks :
        (Received(t, "SchedulerBusy") \/ Received(t, "SchedulerStopped"))
            => begun[t] = 0

\* C7 amended: SchedulerBusy and SchedulerStopped come from schedule_task alone,
\* in async_execute or when a continuation is re-submitted: every subtask begun
\* before has reported, the subtask the task holds is never executed, and the
\* task is in no queue.
C7_RejectedSubtaskNeverRuns ==
    \A t \in Tasks :
        (Received(t, "SchedulerBusy") \/ Received(t, "SchedulerStopped"))
            => /\ begun[t] = ended[t]
               /\ finish[t] = <<>>
               /\ ~Queued(t)
               /\ admits[t] = begun[t]

\* C7 witness: a continuation is rejected after a subtask of the task has run,
\* with SchedulerStopped for one task and SchedulerBusy for another.
C7_Witness ==
    /\ \E t \in Tasks : begun[t] >= 1 /\ Received(t, "SchedulerStopped")
    /\ \E t \in Tasks : Received(t, "SchedulerBusy")

\* C8: when the last subtask reports Finish(r) the callback receives exactly r.
C8_FinishResultUnchanged ==
    \A t \in Tasks : finish[t] # <<>> => callbacks[t] = finish[t]

\* C8 witness: a ReadCritical get of the absent key "x" at ts 100 delivered
\* Ok(Storage(None)), a get of "k" (written at ts 50) at ts 100 delivered
\* Ok(Storage(Some("v"))).
C8_Witness ==
    \E t, u \in Tasks :
        /\ priority[t] = "ReadCritical"
        /\ finish[t] = <<KvGet("x", 100)>>
        /\ callbacks[t] = <<Ok(StorageNone)>>
        /\ finish[u] = <<KvGet("k", 100)>>
        /\ callbacks[u] = <<Ok(StorageSome("v"))>>

\* C9: every subtask of a task is executed on the pool of the task's priority
\* and on no other.
C9_PoolByPriority ==
    \A t \in Tasks :
        IF Submitted(t)
        THEN ranOn[t] \subseteq {ExpectedPool(priority[t])}
        ELSE ranOn[t] = {}

\* C9 witness: two hops of a ReadLow task ran on pool_read_low while a task of
\* another priority ran on its own pool.
C9_Witness ==
    \E t, u \in Tasks :
        /\ priority[t] = "ReadLow" /\ begun[t] = 2 /\ ranOn[t] = {"pool_read_low"}
        /\ Submitted(u) /\ priority[u] # "ReadLow" /\ ranOn[u] # {}

\* C10: Runner::run rejects a task with PoolBusy exactly when the pool of the
\* task's own priority is saturated; no other pool's count matters.
C10_AdmissionOwnPoolOnly ==
    [][\A t \in Tasks :
          IsRunOf(t) =>
              /\ (callbacks'[t] = Append(callbacks[t], Err("PoolBusy")))
                    <=> (task_count[ExpectedPool(priority[t])] >= max_read_tasks)
              /\ (callbacks'[t] = callbacks[t] /\ admits'[t] = admits[t] + 1)
                    <=> (task_count[ExpectedPool(priority[t])] < max_read_tasks)]_vars

\* C10 witness: task t was admitted while a pool of another priority was
\* saturated. No continuation has been scheduled and t is the task submitted
\* last, so t's Runner::run was the last one; task_count grows in Runner::run
\* only, so the other pool was saturated when t was admitted.
C10_Witness ==
    \E t \in Tasks, q \in Pools :
        /\ verdict[t] = "admitted"
        /\ q # ExpectedPool(priority[t])
        /\ task_count[q] >= max_read_tasks
        /\ mailbox = <<>>
        /\ \A u \in Tasks : ended[u] = 0 /\ (Submitted(u) => u <= t)

\* C11: Runner::shutdown attempts to stop all four pools; a stop() that
\* returns Err is swallowed and the remaining pools are still stopped, so once
\* shutdown has returned every pool has had stop() called exactly once.
C11_AllPoolsStoppedOnce ==
    worker = "stopped" => \A p \in Pools : stop_calls[p] = 1 /\ pool_stopped[p]

\* C11 witness: shutdown has returned, the stop of the first pool in the order
\* failed, and each of the four pools was stopped once.
C11_Witness ==
    /\ worker = "stopped"
    /\ stop_failed = {ShutdownOrder[1]}
    /\ \A p \in Pools : stop_calls[p] = 1

\* The task a caller hands to async_execute next.
NextToSubmit(t) ==
    priority[t] = NoPriority /\ \A u \in Tasks : u < t => priority[u] # NoPriority

\* C12: async_execute never takes the worker mutex: a submission is possible
\* in every state, also while start() or shutdown() holds the mutex (shutdown
\* possibly blocked in the join); it leaves the mutex as it is and ends with
\* the task accepted by the scheduler or with its callback invoked with
\* SchedulerBusy or SchedulerStopped.
C12_AsyncExecuteLockFree ==
    /\ [](\A t \in Tasks :
            NextToSubmit(t) => \A pr \in PrioritiesFor(t) : ENABLED AsyncExecute(t, pr))
    /\ [][\A t \in Tasks :
            priority'[t] # priority[t] =>
                /\ worker_lock' = worker_lock
                /\ \/ InSeq(mailbox', t) /\ callbacks'[t] = <<>>
                   \/ ~InSeq(mailbox', t) /\ callbacks'[t] = <<Err("SchedulerBusy")>>
                   \/ ~InSeq(mailbox', t) /\ callbacks'[t] = <<Err("SchedulerStopped")>>]_vars

\* C12 witness: shutdown() holds the mutex, blocked in the join, and a task
\* none of whose subtasks has run was answered SchedulerStopped: it was
\* submitted after worker.stop(), while the mutex was held.
C12_Witness ==
    /\ worker_lock = "shutdown"
    /\ worker = "stopping"
    /\ \E t \in Tasks : begun[t] = 0 /\ callbacks[t] = <<Err("SchedulerStopped")>>

\* ------------------------------------------------------ DAG handler claims
\* The scan yields its keys in ascending (forward) or descending (backward)
\* order.
Forward == \A i, j \in 1..Len(rows) : i < j => LexLess(rows[i], rows[j])
Backward == \A i, j \in 1..Len(rows) : i < j => LexLess(rows[j], rows[i])

\* The rows of a sequence of chunks, in order.
RECURSIVE RowsIn(_)
RowsIn(chs) == IF chs = <<>> THEN <<>> ELSE Head(chs) \o RowsIn(Tail(chs))

\* Call i returned a frame and met no error.
CleanFrame(i) ==
    /\ returns[i].ret.kind = "Ok"
    /\ ~returns[i].ret.other_error
    /\ returns[i].exec_error = <<>>

\* C13: a non-streaming handle_request over n >= 1 rows that meets no error
\* returns exactly one response, with remain = false, holding all n rows; for
\* a forward scan its range is [key of the first row, prefix_next(key of the
\* last row)]; when n <= batch_row_limit it has exactly one chunk.
C13_NonStreamingOneResponse ==
    (~streaming /\ Len(rows) >= 1 /\ returns # <<>> /\ CleanFrame(1)) =>
        /\ Len(returns) = 1
        /\ ~returns[1].ret.remain
        /\ RowsIn(returns[1].ret.chunks) = [i \in 1..Len(rows) |-> i]
        /\ Forward =>
              returns[1].ret.range = <<rows[1], prefix_next(rows[Len(rows)])>>
        /\ Len(rows) <= batch_row_limit => Len(returns[1].ret.chunks) = 1

\* C13 witness: a forward non-streaming scan of as many rows as one chunk may
\* hold, the last key ending in 0xFF, answered by one clean frame of one chunk.
C13_Witness ==
    /\ ~streaming
    /\ Len(rows) = 2
    /\ batch_row_limit = 2
    /\ rows[2] = <<1, 255>>
    /\ Forward
    /\ Len(returns) = 1
    /\ CleanFrame(1)
    /\ Len(returns[1].ret.chunks) = 1
    /\ returns[1].ret.range = <<rows[1], <<2, 0>> >>

\* The scenario of C14: a forward streaming scan of the five keys k1..k5 with
\* batch_row_limit = 2 and chunks_per_stream = 1, carried through to its last
\* frame with no error.
StreamingSplitScenario ==
    /\ streaming
    /\ batch_row_limit = 2
    /\ chunks_per_stream = 1
    /\ rows = [i \in 1..5 |-> KeyOrder[i]]
    /\ returns # <<>>
    /\ ~MoreToAsk
    /\ \A i \in 1..Len(returns) : CleanFrame(i)

\* C14: in that scenario the calls return three responses with remain = true
\* and then one with remain = false, and the ranges of the successive
\* responses partition [k1, prefix_next(k5)]: the first starts at k1, each
\* starts where the one before ended, the last ends at prefix_next(k5).
C14_StreamingSplitFourFrames ==
    StreamingSplitScenario =>
        /\ Len(returns) = 4
        /\ \A i \in 1..Len(returns) : returns[i].ret.remain <=> i < Len(returns)
        /\ \A i \in 1..Len(returns) : returns[i].ret.range # <<>>
        /\ returns[1].ret.range[1] = rows[1]
        /\ \A i \in 1..(Len(returns) - 1) :
              returns[i + 1].ret.range[1] = returns[i].ret.range[2]
        /\ returns[Len(returns)].ret.range[2] = prefix_next(rows[5])

\* Key k lies in the range <<start, end>>, read as [start, end).
InRange(k, range) == LexLeq(range[1], k) /\ LexLess(k, range[2])

\* The calls so far whose response carries a range.
Ranged == {i \in 1..Len(returns) : returns[i].ret.range # <<>>}

\* The union of the reported ranges contains the key of every row the
\* executor has produced.
RangesCoverRows ==
    \A j \in 1..exec_pos : \E i \in Ranged : InRange(rows[j], returns[i].ret.range)

\* The start keys of successive responses are non-decreasing.
StartKeysAscend ==
    \A i, j \in Ranged : i < j => LexLeq(returns[i].ret.range[1], returns[j].ret.range[1])

\* The start keys of successive responses are non-increasing.
StartKeysDescend ==
    \A i, j \in Ranged : i < j => LexLeq(returns[j].ret.range[1], returns[i].ret.range[1])

Made == {i \in 1..Len(returns) : CleanFrame(i)}

\* C16: make_response normalises the range. With both keys and start > end
\* it reports [end, prefix_next(start)]; with both keys and start <= end it
\* reports [start, prefix_next(end)]; with only a start key it reports
\* [start, prefix_next(start)]; with neither key the response has no range.
\* Every reported range has start < end.
C16_RangeNormalised ==
    \A i \in Made :
        LET r == returns[i].ret
            s == r.start_key
            e == r.end_key
        IN  /\ (s # <<>> /\ e # <<>> /\ LexLess(e[1], s[1])) =>
                   r.range = <<e[1], prefix_next(s[1])>>
            /\ (s # <<>> /\ e # <<>> /\ LexLeq(s[1], e[1])) =>
                   r.range = <<s[1], prefix_next(e[1])>>
            /\ (s # <<>> /\ e = <<>>) => r.range = <<s[1], prefix_next(s[1])>>
            /\ (s = <<>> /\ e = <<>>) => r.range = <<>>
            /\ r.range # <<>> => LexLess(r.range[1], r.range[2])

\* C16 witness: a response made from an inverted pair of keys, the larger of
\* them all 0xFF bytes, so that its prefix_next is the key with a 0 appended.
C16_Witness ==
    \E i \in Made :
        /\ returns[i].ret.start_key = << <<255>> >>
        /\ returns[i].ret.end_key # <<>>
        /\ LexLess(returns[i].ret.end_key[1], <<255>>)
        /\ returns[i].ret.range = <<returns[i].ret.end_key[1], <<255, 0>> >>

\* C17: when the executor's next() fails inside handle_request, an Other
\* error yields Ok with a response whose other_error is set and remain =
\* false, in streaming mode too; an error of any other kind makes the call
\* return Err with that error; in both cases no row is pulled after the
\* failure: the call is the last one and the executor stays where it failed.
C17_ExecutorErrorHandling ==
    \A i \in 1..Len(returns) :
        returns[i].exec_error # <<>> =>
            /\ i = Len(returns)
            /\ ~MoreToAsk
            /\ exec_pos = returns[i].failed_at - 1
            /\ IF returns[i].exec_error = <<"Other">>
               THEN /\ returns[i].ret.kind = "Ok"
                    /\ returns[i].ret.other_error
                    /\ ~returns[i].ret.remain
               ELSE /\ returns[i].ret.kind = "Err"
                    /\ <<returns[i].ret.err>> = returns[i].exec_error

\* C17 witness: a streaming run whose second call met an Other error after
\* pulling a row, and returned it in band.
C17_Witness ==
    /\ streaming
    /\ Len(returns) = 2
    /\ returns[2].exec_error = <<"Other">>
    /\ returns[2].pulled >= 1
    /\ returns[2].ret.other_error

\* The check of call i that first finds the request outdated, were the call
\* to get that far: 0 for none.
FirstOutdatedCheck(i) ==
    IF returns[i].was_outdated THEN 1 ELSE returns[i].expire_at

\* The result the task of the request finishes with, after call i.
TaskResultAfter(i) == cop_task_result(returns[i].ret)

\* C18 as stated: once the request is outdated the current call fails with
\* Outdated instead of returning a response frame, and the task's callback
\* fires with that error.
C18_OutdatedCallFails ==
    \A i \in 1..Len(returns) :
        returns[i].was_outdated =>
            /\ returns[i].ret.kind = "Err"
            /\ returns[i].ret.err = "Outdated"
            /\ TaskResultAfter(i) = Err("Outdated")

\* C18, amended: handle_request consults check_if_outdated after every row the
\* executor yields, not only at chunk boundaries. A call fails with Outdated,
\* and the task finishes with that error, exactly when the executor yields
\* it a row once the request is outdated, and it pulls no row after that one;
\* a call in which the executor yields no such row (the scan has ended or
\* next() fails) returns as it would in time.
C18_OutdatedFailsAtNextRow ==
    \A i \in 1..Len(returns) :
        LET c == FirstOutdatedCheck(i)
            failed == returns[i].ret.kind = "Err" /\ returns[i].ret.err = "Outdated"
        IN  /\ failed <=> (c # 0 /\ returns[i].pulled = c)
            /\ c # 0 => returns[i].pulled <= c
            /\ failed => TaskResultAfter(i) = Err("Outdated")

\* C18 witness: a call entered with the request outdated and a chunk carried
\* over from the frame before, so that its first row opens no chunk: the call
\* fails with Outdated at that row.
C18_Witness ==
    \E i \in 2..Len(returns) :
        /\ returns[i].was_outdated
        /\ returns[i].pulled = 1
        /\ batch_row_limit > 1
        /\ returns[i].ret.kind = "Err"
        /\ returns[i].ret.err = "Outdated"

\* -------------------------------------------------- storage adapter claims
\* C19: over any sequence of begin_scan, scan_next, begin_range_scan,
\* range_scan_next_batch, get and collect_statistics calls the statistics of
\* every access are counted exactly once: nothing is delivered twice, and
\* after a final collect_statistics the sum added to the destinations equals
\* the sum counted by the store, the scanners and the range scanners.
C19_StatisticsExactlyOnce ==
    /\ delivered <= produced
    /\ collected # <<>> => delivered = produced

\* C20: if no scan, range-scan or get happens between two consecutive
\* collect_statistics calls, the second adds zero to its destination,
\* whatever preceded the first.
C20_CollectIdempotent ==
    \A i \in 2..Len(collected) : collected[i] = 0

\* C20 witness: two collect_statistics calls in a row with a live scanner; the
\* first delivered the statistics of two accesses, the second nothing.
C20_Witness ==
    /\ scanner # <<>>
    /\ collected = <<2, 0>>

\* C21: begin_range_scan scans the lock CF exactly once, before the new range
\* scanner is installed and so before any batch of the range is yielded; on a
\* conflicting lock the call itself returns KeyIsLocked, the new scanner is
\* not installed, and range_scan_next_batch yields nothing of that range.
StepsOf(call, step) ==
    {i \in 1..Len(range_scans[call].steps) : range_scans[call].steps[i] = step}

C21_LockScanBeforeInstall ==
    \A call \in 1..Len(range_scans) :
        LET r == range_scans[call]
        IN  /\ r.outcome # "Build" => Cardinality(StepsOf(call, "scan_first_lock")) = 1
            /\ \A i \in StepsOf(call, "install") :
                   \E j \in StepsOf(call, "scan_first_lock") : j < i
            /\ (range_id = call \/ \E y \in yielded : y[1] = call) =>
                   /\ r.result = "Ok"
                   /\ StepsOf(call, "install") # {}
            /\ r.outcome = "Lock" =>
                   /\ r.result = "KeyIsLocked"
                   /\ range_id # call
                   /\ \A y \in yielded : y[1] # call

\* A range scan is running, begin_range_scan on a locked range has failed,
\* and a batch was asked for after the failure.
C21_Witness ==
    \E call \in 1..Len(range_scans) :
        /\ range_scans[call].outcome = "Lock"
        /\ \E y \in yielded : y[2] >= call

\* --------------------------------------------------- key encoding claims
\* The last 8 bytes of k are the big-endian bytes of the bitwise complement of
\* ts: limb by limb, the two add up to 0xFFFF.
DescSuffix(k, ts) ==
    /\ Len(k) >= 8
    /\ \A i \in 1..4 :
           k[Len(k) - 8 + 2 * i - 1] * 256 + k[Len(k) - 8 + 2 * i] + ts[i] = 65535

\* k is `before` and 8 more bytes, the descending encoding of ts.
Suffixed(k, before, ts) ==
    /\ Len(k) = Len(before) + 8
    /\ SubSeq(k, 1, Len(before)) = before
    /\ DescSuffix(k, ts)

\* C22: while the guard of with_ts_temporarily(t) is held the key is its old
\* bytes and the 8-byte descending encoding of t; once the guard is released,
\* on whichever exit path, the key is bit-identical to what it was before.
C22_GuardAppendsAndRestores ==
    /\ guard # <<>> => Suffixed(pk, guard[1].before, guard[1].ts)
    /\ last_op.op = "drop" => pk = last_op.before

\* A guard over a key that carries a timestamp of its own was dropped by
\* unwinding.
C22_Witness ==
    /\ last_op.op = "drop"
    /\ last_op.path = "unwind"
    /\ attached # <<>>
    /\ Len(uk) = 8

\* C23: append_ts(t) appends exactly the 8 big-endian bytes of the bitwise
\* complement of t, so get_ts returns t, and of two timestamps the key with
\* the later one sorts before the key with the earlier one.
C23_AppendTsDescending ==
    /\ last_op.op = "append_ts" => Suffixed(pk, last_op.before, attached[1])
    /\ last_op.op = "get_ts" =>
           last_op.ts = IF guard # <<>> THEN guard[1].ts ELSE attached[1]
    /\ last_op.op = "cmp_ts" => (last_op.ts_lt => last_op.other_lt)

\* The key carries timestamp 1 and was compared with the key of a later one.
C23_Witness ==
    /\ last_op.op = "cmp_ts"
    /\ last_op.ts_lt
    /\ attached = << <<0, 0, 0, 1>> >>

\* C24: decoding the logical slice of the key allocated from a user key gives
\* back exactly that user key, the empty key and keys of 8 bytes included.
C24_UserKeyRoundTrip ==
    last_op.op = "alloc_to_user_vec" => last_op.ret = [ok |-> TRUE, value |-> uk]

\* A user key of 8 bytes was decoded from its freshly allocated key.
C24_Witness ==
    /\ last_op.op = "alloc_to_user_vec"
    /\ last_op.ret.ok
    /\ Len(uk) = 8
    /\ attached = <<>>
    /\ guard = <<>>

\* C25: the encoding preserves order: one user key is at most another exactly
\* when its key is at most the other's key, prefixes and trailing zero bytes
\* included.
C25_OrderPreserving ==
    last_op.op = "cmp_user" => (last_op.user_le <=> last_op.key_le)

\* A user key of 7 bytes was compared with itself extended by zero bytes.
C25_Witness ==
    /\ last_op.op = "cmp_user"
    /\ last_op.rel = "zero_extended"
    /\ last_op.user_le
    /\ last_op.key_le
    /\ Len(uk) = 7

\* --------------------------------------------------- prefix_next claims
\* C26: for every byte string x, prefix_next(x) is strictly greater than x,
\* and x itself is left as it was.
C26_PrefixNextGreater ==
    px_call # <<>> =>
        /\ LexLess(px_call[1].arg, px_call[1].ret)
        /\ px_key = px_call[1].arg

\* prefix_next was called on a key that ends in 0xFF after another byte.
C26_Witness ==
    /\ px_call # <<>>
    /\ px_call[1].arg = <<97, 255>>
    /\ px_call[1].ret = <<98, 0>>

AllFF(x) == \A i \in 1..Len(x) : x[i] = 255
StartsWith(y, x) == Len(x) <= Len(y) /\ SubSeq(y, 1, Len(x)) = x

\* The byte strings a result is compared with: one byte longer than the keys,
\* over their bytes and the bytes next to them.
ProbeBytes == PrefixBytes \cup {1, 98}
ProbeKeys == UNION {[1..n -> ProbeBytes] : n \in 0..(MaxKeyLen + 1)}
Between(x, z) == {y \in ProbeKeys : LexLess(x, y) /\ LexLess(y, z)}

\* C27 as stated: for every x that is not all-0xFF no byte string lies
\* strictly between x and prefix_next(x).
C27_PrefixNextLeast ==
    (px_call # <<>> /\ ~AllFF(px_call[1].arg)) =>
        Between(px_call[1].arg, px_call[1].ret) = {}

\* C27: for x not all-0xFF, prefix_next(x) is strictly greater than x and
\* than every string that starts with x, and every string strictly between x
\* and prefix_next(x) starts with x or is a proper prefix of prefix_next(x),
\* the latter only when x ends in 0xFF; for x all-0xFF nothing lies strictly
\* between x and prefix_next(x).
C27_PrefixNextBoundsPrefix ==
    px_call # <<>> =>
        LET x == px_call[1].arg
            z == px_call[1].ret
        IN  IF AllFF(x) THEN Between(x, z) = {}
            ELSE /\ LexLess(x, z)
                 /\ \A y \in ProbeKeys : StartsWith(y, x) => LexLess(y, z)
                 /\ \A y \in Between(x, z) :
                        \/ StartsWith(y, x)
                        \/ /\ StartsWith(z, y)
                           /\ x[Len(x)] = 255

\* A string that starts with x and one that is a proper prefix of
\* prefix_next(x) lie between the two.
C27_Witness ==
    /\ px_call # <<>>
    /\ px_call[1].arg = <<97, 255>>
    /\ {<<97, 255, 0>>, <<98>>} \subseteq Between(px_call[1].arg, px_call[1].ret)

\* The carry rule: the last byte that is not 0xFF is incremented and every
\* byte after it becomes 0.
Carried(x) ==
    LET j == CHOOSE j \in 1..Len(x) : x[j] # 255 /\ \A i \in (j + 1)..Len(x) : x[i] = 255
    IN  [i \in 1..Len(x) |-> IF i < j THEN x[i] ELSE IF i = j THEN x[i] + 1 ELSE 0]

\* C28: prefix_next of the empty string is [00]; of an all-0xFF string, the
\* string with 00 appended; of any other, the string with its last non-0xFF
\* byte incremented and every byte after it 00, the length unchanged.
C28_CarryRule ==
    px_call # <<>> =>
        LET x == px_call[1].arg
        IN  px_call[1].ret = IF x = <<>> THEN <<0>>
                             ELSE IF AllFF(x) THEN x \o <<0>>
                             ELSE Carried(x)

\* prefix_next was called on [FF FF].
C28_Witness ==
    /\ px_call # <<>>
    /\ px_call[1].arg = <<255, 255>>
    /\ px_call[1].ret = <<255, 255, 0>>

\* ------------------------------------------------------- ReadPool claims
QueuedOn(pool, id) == \E i \in 1..Len(rp_queue[pool]) : rp_queue[pool][i].id = id

\* C29: for each priority, the future returned by future_execute(priority, f)
\* resolves to exactly the outcome of f, the same Ok or the same Err: until
\* it has, f waits on the pool of that priority.
C29_FutureExecuteSameOutcome ==
    \A id \in 1..Len(rp_futures) :
        LET f == rp_futures[id]
        IN  IF f.handle = <<>>
            THEN \A pool \in ReadPools :
                     QueuedOn(pool, id) <=> pool = ReadPool_get_pool_by_priority(f.priority)
            ELSE /\ f.handle = <<f.given>>
                 /\ \A pool \in ReadPools : ~QueuedOn(pool, id)

\* A failing future of low priority and a succeeding one of high priority
\* have both resolved.
C29_Witness ==
    /\ \E id \in 1..Len(rp_futures) :
           /\ rp_futures[id].priority = "Low"
           /\ ~rp_futures[id].given.ok
           /\ rp_futures[id].handle = <<rp_futures[id].given>>
    /\ \E id \in 1..Len(rp_futures) :
           /\ rp_futures[id].priority = "High"
           /\ rp_futures[id].given.ok
           /\ rp_futures[id].handle = <<rp_futures[id].given>>

\* ---------------------------------------------------- streaming claims
\* The calls so far that returned a partial response.
Partial == {i \in Made : returns[i].ret.remain}

\* C30: in streaming mode with chunks_per_stream >= 1 every remain = true
\* response carries exactly chunks_per_stream chunks; it is emitted at the
\* first chunk boundary at which that many chunks are buffered, never earlier
\* or later, so each of its chunks holds exactly batch_row_limit rows; and it
\* carries the range [start_key, prefix_next(end_key)] of the keys handed to
\* make_response, the lesser first.
C30_PartialAtFirstBoundary ==
    (streaming /\ chunks_per_stream >= 1) =>
        \A i \in Partial :
            LET ret == returns[i].ret
            IN  /\ Len(ret.chunks) = chunks_per_stream
                /\ \A c \in 1..Len(ret.chunks) : Len(ret.chunks[c]) = batch_row_limit
                /\ ret.start_key # <<>> /\ ret.end_key # <<>>
                /\ ret.range = IF LexLess(ret.end_key[1], ret.start_key[1])
                               THEN <<ret.end_key[1], prefix_next(ret.start_key[1])>>
                               ELSE <<ret.start_key[1], prefix_next(ret.end_key[1])>>

\* C31: a new chunk is opened exactly when no chunk exists or the current
\* chunk holds batch_row_limit rows, so, streaming or not, over all the
\* handle_request calls of one DAGContext no chunk of a response and no chunk
\* still buffered holds more than batch_row_limit rows.
C31_ChunkWithinBatchRowLimit ==
    /\ \A i \in Made : \A c \in 1..Len(returns[i].ret.chunks) :
           Len(returns[i].ret.chunks[c]) <= batch_row_limit
    /\ \A c \in 1..Len(chunks) : Len(chunks[c]) <= batch_row_limit

\* --------------------------------------------------- inflate_cols claims
\* Where the value of column col_id comes from, by strict priority.
Source(col_id) ==
    IF col_id \in ic_row.stored THEN "stored"
    ELSE IF ic_cols[col_id].pk_handle THEN "pk"
    ELSE IF ic_cols[col_id].has_default THEN "default"
    ELSE IF ic_cols[col_id].not_null THEN "missing"
    ELSE "null"

\* v is what the priority rule gives for column col_id.
Resolved(v, col_id) ==
    /\ v.col = col_id
    /\ v.from = Source(col_id)
    /\ v.from = "pk" =>
           /\ v.tag = IF ic_cols[col_id].unsigned THEN "U64" ELSE "I64"
           /\ v.bits = ic_row.handle
    /\ v.from = "null" => v.tag = "Null"
    /\ v.from = "missing" => v.bits = ic_row.handle

\* The output offsets whose column is missing.
Missing == {i \in 1..Len(ic_offsets) : Source(ic_offsets[i]) = "missing"}

\* C32: each output offset is resolved by strict priority: the stored value,
\* else the primary key synthesised from the handle (unsigned or signed by the
\* column's flag) for the pk handle column, else the default, else failure
\* naming the column and the handle for a NOT NULL column, else the null
\* sentinel; on failure nothing of the row is appended to the chunk.
C32_InflateByPriority ==
    ic_ret # <<>> =>
        LET r == ic_ret[1]
        IN  /\ r.ok <=> Missing = {}
            /\ r.ok =>
                   /\ Len(r.values) = Len(ic_offsets)
                   /\ \A i \in 1..Len(ic_offsets) : Resolved(r.values[i], ic_offsets[i])
                   /\ ic_chunk = r.before \o r.values
            /\ ~r.ok =>
                   /\ \E i \in Missing :
                          /\ \A j \in Missing : i <= j
                          /\ Resolved(r.values[1], ic_offsets[i])
                   /\ ic_chunk = r.before

\* The first output column was synthesised from the handle -1 of an unsigned
\* pk column that also has a default, the second is missing, and the chunk
\* is as it was.
C32_Witness ==
    /\ ic_ret # <<>>
    /\ ~ic_ret[1].ok
    /\ Len(ic_offsets) = 2
    /\ Source(ic_offsets[1]) = "pk"
    /\ ic_cols[ic_offsets[1]].unsigned
    /\ ic_cols[ic_offsets[1]].has_default
    /\ ic_row.handle = <<65535, 65535, 65535, 65535>>
    /\ ic_chunk = <<>>

\* ---------------------------------------------------------------- C40
IsNull(x) == x = <<>>
IsFalse(x) == x = <<0>>
IsTrue(x) == IF x = <<>> THEN FALSE ELSE x[1] # 0

\* AND and OR of SQL's three-valued logic.
SqlAnd(a, b) ==
    IF IsFalse(a) \/ IsFalse(b) THEN <<0>>
    ELSE IF IsNull(a) \/ IsNull(b) THEN <<>>
    ELSE <<1>>
SqlOr(a, b) ==
    IF IsTrue(a) \/ IsTrue(b) THEN <<1>>
    ELSE IF IsNull(a) \/ IsNull(b) THEN <<>>
    ELSE <<0>>

\* C40: what RpnFnLogicalAnd and RpnFnLogicalOr return is the AND and the OR
\* of three-valued logic on the two arguments, the same with the arguments
\* exchanged, and one of NULL, 0 and 1.
C40_ThreeValuedLogic ==
    rpn_call # <<>> =>
        LET c == rpn_call[1]
            a == rpn_args[1]
            b == rpn_args[2]
        IN  /\ c.ret \in {<<>>, <<0>>, <<1>>}
            /\ c.fn = "LogicalAnd" =>
                   /\ c.ret = SqlAnd(a, b)
                   /\ c.ret = RpnFnLogicalAnd_call(b, a)
            /\ c.fn = "LogicalOr" =>
                   /\ c.ret = SqlOr(a, b)
                   /\ c.ret = RpnFnLogicalOr_call(b, a)

\* AND of NULL and false has returned 0.
C40_Witness ==
    /\ rpn_call # <<>>
    /\ rpn_args = << <<>>, <<0>> >>
    /\ rpn_call[1].fn = "LogicalAnd"
    /\ rpn_call[1].ret = <<0>>

\* ---------------------------------------------------------------- C39
\* The byte strings that start with x, x itself among them.
Extensions(x) == {y \in ProbeKeys : StartsWith(y, x)}

\* C39: when x holds a byte other than 0xFF, x and every byte string that
\* starts with x are strictly less than prefix_next(x): the range
\* [x, prefix_next(x)) holds every key that starts with x.
C39_RangeCoversPrefix ==
    (px_call # <<>> /\ ~AllFF(px_call[1].arg)) =>
        \A y \in Extensions(px_call[1].arg) :
            /\ ~LexLess(y, px_call[1].arg)
            /\ LexLess(y, px_call[1].ret)

\* prefix_next was called on [FE FF]; [FE FF FF] starts with it and is below
\* the result [FF 00].
C39_Witness ==
    /\ px_call # <<>>
    /\ px_call[1].arg = <<254, 255>>
    /\ px_call[1].ret = <<255, 0>>
    /\ <<254, 255, 255>> \in Extensions(px_call[1].arg)

\* ---------------------------------------------------------------- C36
\* Task t is the only one handed to async_execute.
OnlyTask(t) == \A u \in Tasks \ {t} : priority[u] = NoPriority

\* C36 as claimed: with max_read_tasks >= 1 a task that is the only one in the
\* system is never answered PoolBusy: the admission check of a continuation
\* does not count the closure of the task's previous hop.
C36_NoPoolBusyFromOwnHop ==
    \A t \in Tasks :
        (OnlyTask(t) /\ max_read_tasks >= 1) => ~Received(t, "PoolBusy")

\* ---------------------------------------------------------------- C37
\* The rows of the chunks of the first n responses, in emission order.
RECURSIVE Delivered(_)
Delivered(n) ==
    IF n = 0 THEN <<>> ELSE Delivered(n - 1) \o RowsIn(returns[n].ret.chunks)

\* The rows the executor had produced when call n returned.
RECURSIVE PulledUpTo(_)
PulledUpTo(n) == IF n = 0 THEN 0 ELSE PulledUpTo(n - 1) + returns[n].pulled

\* No call so far met an error.
RunWithoutErrors == returns # <<>> /\ \A i \in 1..Len(returns) : CleanFrame(i)

\* C37: in a run without errors, streaming or not, the rows of all chunks of
\* all responses in emission order, followed by the rows still held in
\* self.chunks, are the rows the executor produced so far, each once and in
\* its order; the row that triggers a split is not in the response being
\* emitted; once the last frame is out the responses hold every row of the
\* executor in its order.
C37_RowsDeliveredInOrder ==
    RunWithoutErrors =>
        /\ Delivered(Len(returns)) \o RowsIn(chunks) = [i \in 1..exec_pos |-> i]
        /\ \A n \in 1..Len(returns) :
               returns[n].ret.remain =>
                   /\ Delivered(n) = [i \in 1..(PulledUpTo(n) - 1) |-> i]
                   /\ PulledUpTo(n) \in {RowsIn(chunks)[i] : i \in 1..Len(RowsIn(chunks))}
                         \cup {Delivered(Len(returns))[i] :
                                  i \in (Len(Delivered(n)) + 1)..Len(Delivered(Len(returns)))}
        /\ ~MoreToAsk =>
               [i \in 1..Len(Delivered(Len(returns))) |->
                    rows[Delivered(Len(returns))[i]]] = rows

\* A streaming scan of four rows ended without error after two frames, the
\* row that triggered the split delivered by the second.
C37_Witness ==
    /\ streaming
    /\ Len(rows) = 4
    /\ batch_row_limit = 1
    /\ chunks_per_stream = 2
    /\ RunWithoutErrors
    /\ ~MoreToAsk
    /\ Len(returns) = 2
    /\ RowsIn(returns[1].ret.chunks) = <<1, 2>>
    /\ RowsIn(returns[2].ret.chunks) = <<3, 4>>

C35_CollectKeepsScannerInPlace ==
    /\ scan_built => scanner # <<>>
    /\ scan_pos = Len(scanned)
    /\ \A i \in 1..Len(scanned) : scanned[i].entry = i

\* scan_next returned the first entry, collect_statistics was called twice,
\* scan_next returned the second entry and collect_statistics was called
\* again.
C35_Witness ==
    /\ Len(scanned) = 2
    /\ ~scanned[1].after_collect
    /\ scanned[2].after_collect
    /\ scanned[2].entry = 2
    /\ collected # <<>>
    /\ scanner = <<0>>

\* ---------------------------------------------------------------- C33
\* Every call on the key so far has returned normally.
AllReturned == IF kp_last = <<>> THEN TRUE ELSE kp_last[1].end = "ok"

\* C33 as claimed: after any sequence of alloc, from_physical_vec, append_ts,
\* shrink_ts, with_ts_temporarily and reset_from calls that returned
\* normally, the bytes of a key with a nonempty PHYSICAL_PREFIX start with
\* that prefix.
C33_KeyStartsWithPrefix ==
    (kp_prefix # <<>> /\ AllReturned) => StartsWith(kp_key, kp_prefix)

\* ---------------------------------------------------------------- C34
\* C34 as claimed: shrink_ts, called directly or by the drop of a guard, on a
\* key of fewer than 8 bytes does not return normally.
C34_ShortShrinkPanics ==
    kp_last # <<>> =>
        ((kp_last[1].op \in {"shrink_ts", "drop"} /\ Len(kp_last[1].before) < 8)
            => kp_last[1].end = "panic")

====
